---- MODULE Spec2Model ----
(***************************************************************************)
(* Field-extraction pipeline of med-digitize: OCR text -> labelled-regex   *)
(* extraction (OCRService.extractFields, AIService.fallbackExtraction,     *)
(* LocalOCRService.fallbackExtraction), the enhance-extraction edge        *)
(* function with its JSON merge and gap fill, AIService.enhanceExtraction, *)
(* and the save handlers of the review forms.                              *)
(*                                                                         *)
(* A JavaScript string is a sequence of one-character strings, so that     *)
(* split, trim, slice and the regular expressions are computed character   *)
(* by character.                                                           *)
(***************************************************************************)
EXTENDS Integers, Sequences, FiniteSets, TLC

\* ------------------------------------------------------------------------
\* Characters and character classes
\* ------------------------------------------------------------------------

LowerSeq == <<"a","b","c","d","e","f","g","h","i","j","k","l","m",
              "n","o","p","q","r","s","t","u","v","w","x","y","z">>

UpperSeq == <<"A","B","C","D","E","F","G","H","I","J","K","L","M",
              "N","O","P","Q","R","S","T","U","V","W","X","Y","Z">>

DigitSeq == <<"0","1","2","3","4","5","6","7","8","9">>

Lower == {LowerSeq[i] : i \in 1..26}

Upper == {UpperSeq[i] : i \in 1..26}

Digit == {DigitSeq[i] : i \in 1..10}

\* \s of a JavaScript regular expression, and what String.prototype.trim strips
Whitespace == {" ", "\n", "\r", "\t"}

IsLetter(c) == c \in Lower \cup Upper

\* \w of a JavaScript regular expression
IsWordChar(c) == c \in Lower \cup Upper \cup Digit \cup {"_"}

LowerOf == [c \in Upper |-> LowerSeq[CHOOSE i \in 1..26 : UpperSeq[i] = c]]

UpperOf == [c \in Lower |-> UpperSeq[CHOOSE i \in 1..26 : LowerSeq[i] = c]]

\* String.prototype.toLowerCase on one character
ToLowerChar(c) == IF c \in Upper THEN LowerOf[c] ELSE c

\* String.prototype.toUpperCase on one character
ToUpperChar(c) == IF c \in Lower THEN UpperOf[c] ELSE c

ToLowerCase(s) == [i \in 1..Len(s) |-> ToLowerChar(s[i])]

ToUpperCase(s) == [i \in 1..Len(s) |-> ToUpperChar(s[i])]

Max(S) == CHOOSE x \in S : \A y \in S : y <= x

Min(S) == CHOOSE x \in S : \A y \in S : x <= y

\* ------------------------------------------------------------------------
\* String helpers
\* ------------------------------------------------------------------------

\* String.prototype.trim
Trim(s) ==
    LET keep == {i \in 1..Len(s) : s[i] \notin Whitespace}
    IN  IF keep = {} THEN <<>> ELSE SubSeq(s, Min(keep), Max(keep))

\* text.split('\n'): the pieces between consecutive newlines, in order
Split(s) ==
    LET nl     == {i \in 1..Len(s) : s[i] = "\n"}
        cuts   == {0} \cup nl \cup {Len(s) + 1}
        starts == cuts \ {Len(s) + 1}
        nth(k) == CHOOSE c \in starts : Cardinality({d \in starts : d < c}) = k - 1
        next(c) == Min({d \in cuts : d > c})
    IN  [k \in 1..Cardinality(starts) |-> SubSeq(s, nth(k) + 1, next(nth(k)) - 1)]

\* text.split('\n').map(line => line.trim()).filter(line => line.length > 0)
Lines(text) ==
    LET raw == Split(text)
        trimmed == [k \in 1..Len(raw) |-> Trim(raw[k])]
    IN  SelectSeq(trimmed, LAMBDA l : Len(l) > 0)

\* ------------------------------------------------------------------------
\* Regular-expression matching
\* (leftmost start, alternatives in written order, greedy quantifiers that
\*  give characters back when the rest of the pattern fails)
\* ------------------------------------------------------------------------

\* a literal (written in lower case) matched at position p under the /i flag
LitAt(s, p, lit) ==
    /\ p >= 1
    /\ p + Len(lit) - 1 <= Len(s)
    /\ \A k \in 1..Len(lit) : ToLowerChar(s[p + k - 1]) = lit[k]

NoMatch == [found |-> FALSE, cap |-> <<>>]

\* a string literal as a sequence of characters
S(str) == [i \in 1..Len(str) |-> SubSeq(str, i, i)]

\* ---- capture groups: the length matched at p, 0 for no match ----

\* ([a-zA-Z\s.]+)                                   ocrService.ts:39
IsNameChar(c) == IsLetter(c) \/ c \in Whitespace \/ c = "."

\* ([a-zA-Z\s.'-]+)              localOCRService.ts:71,345; index.ts:77
IsNameCharWide(c) == IsNameChar(c) \/ c = "'" \/ c = "-"

\* ([^\.]+)                                         ocrService.ts:43,44
IsNotDot(c) == c # "."

\* ([^,\n\r]+)            localOCRService.ts:75,76,349,350; index.ts:81,82
IsNotCommaNewline(c) == c \notin {",", "\n", "\r"}

IsDigit(c) == c \in Digit

\* the separator class [:\s]
IsSep(c) == c = ":" \/ c \in Whitespace

IsLower(c) == c \in Lower

\* a character class over a string: for each position, whether its character
\* is in the class
Seps(s) == [q \in 1..Len(s) |-> IsSep(s[q])]

NameChars(s) == [q \in 1..Len(s) |-> IsNameChar(s[q])]

NameCharsWide(s) == [q \in 1..Len(s) |-> IsNameCharWide(s[q])]

NotDots(s) == [q \in 1..Len(s) |-> IsNotDot(s[q])]

NotCommas(s) == [q \in 1..Len(s) |-> IsNotCommaNewline(s[q])]

Digits(s) == [q \in 1..Len(s) |-> IsDigit(s[q])]

Lowers(s) == [q \in 1..Len(s) |-> IsLower(s[q])]

\* length of the longest run of characters of s from position p that are in
\* the class in
RunLen(s, p, in) ==
    LET stop == {q \in p..Len(s) : ~in[q]}
    IN  IF p > Len(s) THEN 0
        ELSE IF stop = {} THEN Len(s) - p + 1
        ELSE Min(stop) - p

NameGroup(s, p) == RunLen(s, p, NameChars(s))

NameGroupWide(s, p) == RunLen(s, p, NameCharsWide(s))

NotDotGroup(s, p) == RunLen(s, p, NotDots(s))

NotCommaGroup(s, p) == RunLen(s, p, NotCommas(s))

\* \d{2}\/\d{2}\/\d{4} at p
SlashDateAt(s, p) ==
    /\ p + 9 <= Len(s)
    /\ \A q \in {p, p+1, p+3, p+4, p+6, p+7, p+8, p+9} : IsDigit(s[q])
    /\ s[p+2] = "/" /\ s[p+5] = "/"

\* (\d{2}\/\d{2}\/\d{4}|\d{1,3}): the alternatives in the other order
AgeGroupDateFirst(s, p) ==
    LET d == RunLen(s, p, Digits(s))
    IN  IF SlashDateAt(s, p) THEN 10
        ELSE IF d >= 1 THEN (IF d > 3 THEN 3 ELSE d) ELSE 0

\* (\d{1,3}|\d{2}\/\d{2}\/\d{4}): the first alternative is tried first and
\* nothing follows the group, so it is taken whenever a digit is there
AgeGroup(s, p) ==
    LET d == RunLen(s, p, Digits(s))
    IN  IF d >= 1 THEN (IF d > 3 THEN 3 ELSE d)
        ELSE IF SlashDateAt(s, p) THEN 10 ELSE 0

\* (\d{1,3}|[1-9]\d?)
AgeGroupFallback(s, p) ==
    LET d == RunLen(s, p, Digits(s))
    IN  IF d >= 1 THEN (IF d > 3 THEN 3 ELSE d)
        ELSE IF p <= Len(s) /\ s[p] \in Digit \ {"0"}
             THEN (IF p + 1 <= Len(s) /\ IsDigit(s[p+1]) THEN 2 ELSE 1)
             ELSE 0

\* (\d{1,3})
AgeGroupDigits(s, p) ==
    LET d == RunLen(s, p, Digits(s))
    IN  IF d > 3 THEN 3 ELSE d

\* an alternation of literals (a|b|...) under /i: the first that matches at p
AltGroup(s, p, alts) ==
    LET hit == {a \in 1..Len(alts) : LitAt(s, p, alts[a])}
    IN  IF hit = {} THEN 0 ELSE Len(alts[Min(hit)])

GenderAlts == <<S("male"), S("female"), S("m"), S("f")>>

GenderAltsFallback ==
    <<S("male"), S("female"), S("m"), S("f"), S("man"), S("woman")>>

\* (male|female|m|f)
GenderGroup(s, p) == AltGroup(s, p, GenderAlts)

\* (male|female|m|f|man|woman)
GenderGroupFallback(s, p) == AltGroup(s, p, GenderAltsFallback)

\* (\d{1,2}[seps]\d{1,2}[seps]\d{2,4}) for a set of date separators
DateShape(s, p, dsep) ==
    LET a == RunLen(s, p, Digits(s))
        b == RunLen(s, p + a + 1, Digits(s))
        c == RunLen(s, p + a + b + 2, Digits(s))
    IN  IF /\ a \in {1, 2}
           /\ p + a <= Len(s) /\ s[p + a] \in dsep
           /\ b \in {1, 2}
           /\ p + a + b + 1 <= Len(s) /\ s[p + a + b + 1] \in dsep
           /\ c >= 2
        THEN a + b + 2 + (IF c > 4 THEN 4 ELSE c)
        ELSE 0

\* (\d{1,2}[\/\-]\d{1,2}[\/\-]\d{2,4})
DateGroup(s, p) == DateShape(s, p, {"/", "-"})

\* (\d{1,2}[\/\-\.]\d{1,2}[\/\-\.]\d{2,4})
DateGroupDot(s, p) == DateShape(s, p, {"/", "-", "."})

\* s.match(/(?:l1|l2|...)[:\s]*(GROUP)/i) where grp[p] is the length of the
\* capture group matched at p (0 when it does not match there)
LabelMatch(s, labels, grp) ==
    LET seps(i, a) == RunLen(s, i + Len(labels[a]), Seps(s))
        ok(i, a, k) == LitAt(s, i, labels[a]) /\ grp[i + Len(labels[a]) + k] > 0
        okAlt(i, a) == LitAt(s, i, labels[a]) /\ \E k \in 0..seps(i, a) : ok(i, a, k)
        starts == {i \in 1..Len(s) : \E a \in 1..Len(labels) : okAlt(i, a)}
    IN  IF starts = {} THEN NoMatch
        ELSE LET i == Min(starts)
                 a == Min({b \in 1..Len(labels) : okAlt(i, b)})
                 k == Max({j \in 0..seps(i, a) : ok(i, a, j)})
                 p == i + Len(labels[a]) + k
             IN  [found |-> TRUE, cap |-> SubSeq(s, p, p + grp[p] - 1)]

\* ------------------------------------------------------------------------
\* OCRService.extractFields                          src/utils/ocrService.ts
\* ------------------------------------------------------------------------

\* a record seeded like Scanner's manual form, whose date starts as today
EmptyFieldsDatedToday ==
    [patientName |-> <<>>, age |-> <<>>, gender |-> <<>>,
     date |-> S("2026-11-06"), diagnosis |-> <<>>, prescription |-> <<>>]

EmptyFields ==
    [patientName |-> <<>>, age |-> <<>>, gender |-> <<>>,
     date |-> <<>>, diagnosis |-> <<>>, prescription |-> <<>>]

FieldNames == {"patientName", "age", "gender", "date", "diagnosis", "prescription"}

NameLabels == <<S("name"), S("patient"), S("pt")>>

AgeLabels == <<S("age"), S("dob"), S("birth")>>

GenderLabels == <<S("gender"), S("sex"), S("m/f")>>

DateLabels == <<S("date"), S("dated")>>

DiagnosisLabels == <<S("diagnosis"), S("dx"), S("condition"), S("problem")>>

PrescriptionLabels ==
    <<S("prescription"), S("rx"), S("medication"), S("medicine"), S("drug")>>

\* line.match(patterns.<field>) for the six patterns of extractFields
OcrMatch(field, line) ==
    CASE field = "patientName"  -> LabelMatch(line, NameLabels,
                                              [p \in 1..Len(line) + 1 |-> NameGroup(line, p)])
      [] field = "age"          -> LabelMatch(line, AgeLabels,
                                              [p \in 1..Len(line) + 1 |-> AgeGroup(line, p)])
      [] field = "gender"       -> LabelMatch(line, GenderLabels,
                                              [p \in 1..Len(line) + 1 |-> GenderGroup(line, p)])
      [] field = "date"         -> LabelMatch(line, DateLabels,
                                              [p \in 1..Len(line) + 1 |-> DateGroup(line, p)])
      [] field = "diagnosis"    -> LabelMatch(line, DiagnosisLabels,
                                              [p \in 1..Len(line) + 1 |-> NotDotGroup(line, p)])
      [] field = "prescription" -> LabelMatch(line, PrescriptionLabels,
                                              [p \in 1..Len(line) + 1 |-> NotDotGroup(line, p)])

\* the comparison without toLowerCase()
NormalizeGenderCaseSensitive(cap) ==
    IF cap = S("m") \/ cap = S("male") THEN S("Male") ELSE S("Female")

\* g === 'm' || g === 'male' ? 'Male' : 'Female', g the lower-cased capture
NormalizeGender(cap) ==
    LET g == ToLowerCase(cap)
    IN  IF g = S("m") \/ g = S("male") THEN S("Male") ELSE S("Female")

\* the value of a matching line without the gender normalisation
CapturedRaw(field, m) == Trim(m.cap)

\* the value a matching line gives a field
Captured(field, m) ==
    IF field = "gender" THEN NormalizeGender(m.cap) ELSE Trim(m.cap)

\* the line loop without the !fields.<field> guard: the last match wins
OcrLineStepLastWins(f, line) ==
    [k \in {"patientName", "age", "gender", "date", "diagnosis", "prescription"} |->
        IF OcrMatch(k, line).found THEN Captured(k, OcrMatch(k, line)) ELSE f[k]]

\* one iteration of the line loop: a field that is still empty ('' is falsy)
\* takes the capture of a matching line
OcrLineStep(f, line) ==
    [k \in FieldNames |->
        IF f[k] = <<>> /\ OcrMatch(k, line).found
        THEN Captured(k, OcrMatch(k, line))
        ELSE f[k]]

\* the line loop run from the last line to the first
RECURSIVE OcrScanBackwards(_, _, _)
OcrScanBackwards(lines, i, f) ==
    IF i > Len(lines) THEN f
    ELSE OcrLineStep(OcrScanBackwards(lines, i + 1, f), lines[i])

RECURSIVE OcrScan(_, _, _)
OcrScan(lines, i, f) ==
    IF i > Len(lines) THEN f
    ELSE OcrScan(lines, i + 1, OcrLineStep(f, lines[i]))

\* text.match(/[A-Z][a-z]+ [A-Z][a-z]+/): the whole match, case-sensitive

CapWordLen(s, p) ==
    IF p <= Len(s) /\ s[p] \in Upper /\ RunLen(s, p + 1, Lowers(s)) >= 1
    THEN 1 + RunLen(s, p + 1, Lowers(s)) ELSE 0

TwoCapWordsLen(s, p) ==
    LET a == CapWordLen(s, p)
    IN  IF a > 0 /\ p + a <= Len(s) /\ s[p + a] = " " /\ CapWordLen(s, p + a + 1) > 0
        THEN a + 1 + CapWordLen(s, p + a + 1) ELSE 0

NameFallbackMatch(text) ==
    LET starts == {i \in 1..Len(text) : TwoCapWordsLen(text, i) > 0}
    IN  IF starts = {} THEN NoMatch
        ELSE [found |-> TRUE,
              cap |-> SubSeq(text, Min(starts),
                             Min(starts) + TwoCapWordsLen(text, Min(starts)) - 1)]

\* \b before position p (between s[p-1] and s[p])
WordBoundary(s, p) ==
    LET before == p >= 2 /\ p - 1 <= Len(s) /\ IsWordChar(s[p - 1])
        after  == p >= 1 /\ p <= Len(s) /\ IsWordChar(s[p])
    IN  before # after

\* ([1-9]\d?|100) followed by \b, at p: two digits, else one, else "100"
StandaloneAgeLen(s, p) ==
    LET nz(q) == q <= Len(s) /\ s[q] \in Digit \ {"0"}
        dg(q) == q <= Len(s) /\ s[q] \in Digit
    IN  IF nz(p) /\ dg(p + 1) /\ WordBoundary(s, p + 2) THEN 2
        ELSE IF nz(p) /\ WordBoundary(s, p + 1) THEN 1
        ELSE IF LitAt(s, p, S("100")) /\ WordBoundary(s, p + 3) THEN 3
        ELSE 0

\* text.match(/\b([1-9]\d?|100)\b/)
AgeFallbackMatch(text) ==
    LET starts == {i \in 1..Len(text) :
                      WordBoundary(text, i) /\ StandaloneAgeLen(text, i) > 0}
    IN  IF starts = {} THEN NoMatch
        ELSE [found |-> TRUE,
              cap |-> SubSeq(text, Min(starts),
                             Min(starts) + StandaloneAgeLen(text, Min(starts)) - 1)]

\* the fallbacks without their !fields.patientName and !fields.age guards
OcrFallbacksOverwrite(text, f) ==
    LET n == IF NameFallbackMatch(text).found
             THEN NameFallbackMatch(text).cap ELSE f.patientName
        a == IF AgeFallbackMatch(text).found
             THEN AgeFallbackMatch(text).cap ELSE f.age
    IN  [f EXCEPT !.patientName = n, !.age = a]

\* the two whole-text fallbacks that follow the line loop
OcrFallbacks(text, f) ==
    LET n == IF f.patientName = <<>> /\ NameFallbackMatch(text).found
             THEN NameFallbackMatch(text).cap ELSE f.patientName
        a == IF f.age = <<>> /\ AgeFallbackMatch(text).found
             THEN AgeFallbackMatch(text).cap ELSE f.age
    IN  [f EXCEPT !.patientName = n, !.age = a]

extractFields(text) == OcrFallbacks(text, OcrScan(Lines(text), 1, EmptyFields))

\* ------------------------------------------------------------------------
\* AIService.fallbackExtraction            src/services/localOCRService.ts
\* ------------------------------------------------------------------------

NameLabelsFallback ==
    <<S("name"), S("patient"), S("pt"), S("mr"), S("mrs"), S("miss"), S("dr")>>

\* age|yrs?|years?|y\/o|born: an optional s is tried with the s first
AgeLabelsFallback ==
    <<S("age"), S("yrs"), S("yr"), S("years"), S("year"), S("y/o"), S("born")>>

GenderLabelsFallback ==
    <<S("gender"), S("sex"), S("male"), S("female"), S("m/f"), S("patient")>>

DateLabelsFallback ==
    <<S("date"), S("visit"), S("seen"), S("examined"), S("today")>>

DiagnosisLabelsFallback ==
    <<S("diagnosis"), S("dx"), S("condition"), S("problem"), S("complain"),
      S("chief"), S("complaint"), S("presenting")>>

PrescriptionLabelsFallback ==
    <<S("prescription"), S("rx"), S("medication"), S("medicine"), S("drug"),
      S("treatment"), S("advised"), S("prescribed")>>

\* line.match(patterns.<field>) for the six patterns of fallbackExtraction
FallbackMatch(field, line) ==
    CASE field = "patientName"  -> LabelMatch(line, NameLabelsFallback,
                                              [p \in 1..Len(line) + 1 |-> NameGroupWide(line, p)])
      [] field = "age"          -> LabelMatch(line, AgeLabelsFallback,
                                              [p \in 1..Len(line) + 1 |-> AgeGroupFallback(line, p)])
      [] field = "gender"       -> LabelMatch(line, GenderLabelsFallback,
                                              [p \in 1..Len(line) + 1 |-> GenderGroupFallback(line, p)])
      [] field = "date"         -> LabelMatch(line, DateLabelsFallback,
                                              [p \in 1..Len(line) + 1 |-> DateGroupDot(line, p)])
      [] field = "diagnosis"    -> LabelMatch(line, DiagnosisLabelsFallback,
                                              [p \in 1..Len(line) + 1 |-> NotCommaGroup(line, p)])
      [] field = "prescription" -> LabelMatch(line, PrescriptionLabelsFallback,
                                              [p \in 1..Len(line) + 1 |-> NotCommaGroup(line, p)])

FallbackLineStep(f, line) ==
    [k \in FieldNames |->
        IF f[k] = <<>> /\ FallbackMatch(k, line).found
        THEN Captured(k, FallbackMatch(k, line))
        ELSE f[k]]

RECURSIVE FallbackScan(_, _, _)
FallbackScan(lines, i, f) ==
    IF i > Len(lines) THEN f
    ELSE FallbackScan(lines, i + 1, FallbackLineStep(f, lines[i]))

\* AIService.fallbackExtraction: the line loop only, no whole-text fallback
fallbackExtraction(text) == FallbackScan(Lines(text), 1, EmptyFields)

\* ------------------------------------------------------------------------
\* JavaScript values and objects (what JSON.parse can deliver)
\* ------------------------------------------------------------------------

Str(s) == [t |-> "string", v |-> s]

\* a number, by its decimal digits
Num(s) == [t |-> "number", v |-> s]

Null == [t |-> "null", v |-> <<>>]

\* a property that is not there
Undefined == [t |-> "undefined", v |-> <<>>]

\* !x
Falsy(x) ==
    \/ x.t \in {"null", "undefined"}
    \/ x.t = "string" /\ x.v = <<>>
    \/ x.t = "number" /\ x.v = S("0")

\* the property names an extraction object can carry: the six fields and the
\* pattern key 'name' that the Object.entries loops write to
ObjKeys == FieldNames \cup {"name"}

\* { patientName: '', age: '', gender: '', date: '', diagnosis: '', prescription: '' }
EmptyObj == [k \in ObjKeys |-> IF k = "name" THEN Undefined ELSE Str(<<>>)]

\* a typed ExtractedFields record as an object
ToObj(f) == [k \in ObjKeys |-> IF k = "name" THEN Undefined ELSE Str(f[k])]

\* { ...a, ...b }
Spread(a, b) == [k \in ObjKeys |-> IF b[k].t # "undefined" THEN b[k] ELSE a[k]]

\* ------------------------------------------------------------------------
\* LocalOCRService.fallbackExtraction      src/services/localOCRService.ts
\* ------------------------------------------------------------------------

\* the keys of `patterns`, in Object.entries order
PatternKeys == <<"name", "age", "gender", "date", "diagnosis", "prescription">>

\* the pattern stored under a key of `patterns`
PatternField(key) == IF key = "name" THEN "patientName" ELSE key

\* let value = match[1].trim(); if (field === 'gender') value = <normalized>
CapturedTrimmed(field, m) ==
    IF field = "gender" THEN NormalizeGender(Trim(m.cap)) ELSE Trim(m.cap)

\* (fields as any)[field]: the property named by the pattern key
LocalLineStep(o, line) ==
    [k \in ObjKeys |->
        IF k \in {PatternKeys[i] : i \in 1..6}
           /\ Falsy(o[k]) /\ FallbackMatch(PatternField(k), line).found
        THEN Str(CapturedTrimmed(PatternField(k), FallbackMatch(PatternField(k), line)))
        ELSE o[k]]

RECURSIVE LocalScan(_, _, _)
LocalScan(lines, i, o) ==
    IF i > Len(lines) THEN o
    ELSE LocalScan(lines, i + 1, LocalLineStep(o, lines[i]))

localFallbackExtraction(text) == LocalScan(Lines(text), 1, EmptyObj)

\* ------------------------------------------------------------------------
\* The enhance-extraction edge function
\*                               supabase/functions/enhance-extraction/index.ts
\* ------------------------------------------------------------------------

NameLabelsEdge == <<S("name"), S("patient"), S("pt")>>

AgeLabelsEdge == <<S("age"), S("yrs"), S("yr"), S("years"), S("year")>>

GenderLabelsEdge == <<S("gender"), S("sex")>>

DateLabelsEdge == <<S("date"), S("visit")>>

DiagnosisLabelsEdge == <<S("diagnosis"), S("dx"), S("condition")>>

PrescriptionLabelsEdge == <<S("prescription"), S("rx"), S("medication")>>

\* extractedText.match(pattern) for the pattern stored under a key; the whole
\* text is matched, not one line
EdgeMatch(key, text) ==
    CASE key = "name"         -> LabelMatch(text, NameLabelsEdge,
                                            [p \in 1..Len(text) + 1 |-> NameGroupWide(text, p)])
      [] key = "age"          -> LabelMatch(text, AgeLabelsEdge,
                                            [p \in 1..Len(text) + 1 |-> AgeGroupDigits(text, p)])
      [] key = "gender"       -> LabelMatch(text, GenderLabelsEdge,
                                            [p \in 1..Len(text) + 1 |-> GenderGroup(text, p)])
      [] key = "date"         -> LabelMatch(text, DateLabelsEdge,
                                            [p \in 1..Len(text) + 1 |-> DateGroupDot(text, p)])
      [] key = "diagnosis"    -> LabelMatch(text, DiagnosisLabelsEdge,
                                            [p \in 1..Len(text) + 1 |-> NotCommaGroup(text, p)])
      [] key = "prescription" -> LabelMatch(text, PrescriptionLabelsEdge,
                                            [p \in 1..Len(text) + 1 |-> NotCommaGroup(text, p)])

\* extractedText.match(pattern) for each entry of `patterns`
EdgeMatches(text) == [k \in {PatternKeys[i] : i \in 1..6} |-> EdgeMatch(k, text)]

\* the gap fill, m the matches of the patterns on the text: runs only when
\* patientName or diagnosis is falsy, and then fills the property named by
\* each pattern key that is still falsy
EdgeGapFill(m, o) ==
    IF Falsy(o.patientName) \/ Falsy(o.diagnosis)
    THEN [k \in ObjKeys |->
            IF k \in DOMAIN m /\ Falsy(o[k]) /\ m[k].found
            THEN Str(CapturedTrimmed(k, m[k]))
            ELSE o[k]]
    ELSE o

\* What the text-generation endpoint can do to one request:
\*   kind "throws"  the fetch rejects
\*   kind "not_ok"  a non-2xx answer
\*   kind "no_json" a 2xx answer whose generated text has no {...}
\*   kind "invalid" a 2xx answer whose {...} does not parse
\*   kind "json"    a 2xx answer whose {...} parses to the object `parsed`
HfOutcome(kind, parsed) == [kind |-> kind, parsed |-> parsed]

\* the handler's response, status and body.extractedFields, m the matches of
\* the gap-fill patterns on the request's text
EdgeHandler(m, o) ==
    IF o.kind \in {"throws", "not_ok"}
    THEN [status |-> 500, extractedFields |-> EmptyObj]
    ELSE LET merged == IF o.kind = "json" THEN Spread(EmptyObj, o.parsed)
                       ELSE EmptyObj
         IN  [status |-> 200, extractedFields |-> EdgeGapFill(m, merged)]

\* ------------------------------------------------------------------------
\* AIService.enhanceExtraction and LocalOCRService.extractFields
\*                                          src/services/localOCRService.ts
\* ------------------------------------------------------------------------

\* what supabase.functions.invoke hands back when the function was not
\* reached at all (the call rejects or returns a fetch error)
Unreachable == [status |-> 0, extractedFields |-> EmptyObj]

\* enhanceExtraction without its catch block's fallback
EnhanceResultNoFallback(text, resp) ==
    IF resp.status = 200 THEN resp.extractedFields ELSE Undefined

\* the value enhanceExtraction resolves to: data.extractedFields of a 2xx
\* answer, and the catch block's fallbackExtraction(text) otherwise
EnhanceResult(text, resp) ==
    IF resp.status = 200 THEN resp.extractedFields
    ELSE ToObj(fallbackExtraction(text))

\* supabase.functions.invoke('enhance-extraction', ...), as a call on the wire
InvokeRequest == [op |-> "invoke"]

\* the handler's fetch of the text-generation endpoint
GenerationRequest == [op |-> "generate"]

\* a catch block that calls enhanceExtraction again
EnhanceRetries(resp) == IF resp.status = 200 THEN "enhanced" ELSE "scanned"

\* where enhanceExtraction stands once the invocation has settled: on a
\* return statement, of the try block or of the catch block
EnhanceReturns(resp) == "enhanced"

\* the value LocalOCRService.extractFields resolves to:
\* data.fields || this.fallbackExtraction(text), and the fallback on any error
LocalExtractResult(text, outcome, served) ==
    IF outcome = "fields" THEN served ELSE localFallbackExtraction(text)

\* ------------------------------------------------------------------------
\* Inputs
\* ------------------------------------------------------------------------

\* the most lines an OCR text of the model has
MaxLines == 2

SampleLines ==
    <<S("Name: Jane Doe"),
      S("patient 12"),
      S("Patient Name: Al Bo"),
      S(" Age: 34 "),
      S("dob 12/03/2024"),
      S("Sex: woman"),
      S("Gender: M"),
      S("Dx: flu, mild. rest"),
      S("dx: ."),
      S("Rx: Loratadine 10mg"),
      S("Date: 1/2/2024"),
      S("Al Bo 7"),
      S("mr O'Neil")>>

\* lines joined by '\n'
RECURSIVE Join(_)
Join(ls) ==
    IF Len(ls) = 0 THEN <<>>
    ELSE IF Len(ls) = 1 THEN ls[1]
    ELSE ls[1] \o <<"\n">> \o Join(Tail(ls))

E2EText ==
    S("Patient Name: Alice Walker\nAge: 34\nGender: F\nDiagnosis: Seasonal allergies\nRx: Loratadine 10mg")

Texts ==
    {E2EText} \cup
    UNION {{Join([i \in 1..n |-> SampleLines[pick[i]]]) :
               pick \in [1..n -> 1..Len(SampleLines)]} : n \in 0..MaxLines}

\* objects the generated text can parse to: any value may be a string, a
\* number or null, and any key may be missing
Obj(n, a, g, d, nm) ==
    [k \in ObjKeys |->
        CASE k = "patientName" -> n
          [] k = "age"         -> a
          [] k = "gender"      -> g
          [] k = "diagnosis"   -> d
          [] k = "name"        -> nm
          [] OTHER             -> Undefined]

ParsedObjects ==
    {Obj(n, a, Undefined, d, Undefined) :
        n \in {Undefined, Str(S("Jane")), Null},
        a \in {Undefined, Num(S("34"))},
        d \in {Undefined, Str(S("flu"))}}
    \cup {Obj(Str(S("Jane")), Undefined, Str(S("F")), Undefined, Undefined),
          Obj(Undefined, Undefined, Undefined, Undefined, Str(S("Jane")))}

HfOutcomes ==
    {HfOutcome(k, EmptyObj) : k \in {"throws", "not_ok", "no_json", "invalid"}}
    \cup {HfOutcome("json", o) : o \in ParsedObjects}

\* what the local OCR service can answer to /ocr/extract-fields
LocalOutcomes == {"throws", "not_ok", "no_fields", "fields"}

ServedFields == {ToObj([EmptyFields EXCEPT !.patientName = S("Jane")])}

\* ------------------------------------------------------------------------
\* generatePatientId                 src/utils/ocrService.ts, localOCRService.ts
\* ------------------------------------------------------------------------

\* Number.prototype.toString() of a natural number: its decimal digits
RECURSIVE NumberToString(_)
NumberToString(n) ==
    IF n < 10 THEN <<DigitSeq[n + 1]>>
    ELSE NumberToString(n \div 10) \o <<DigitSeq[(n % 10) + 1]>>

\* s.slice(-k): the last k characters, the whole string when it is shorter
SliceLast(s, k) == IF Len(s) <= k THEN s ELSE SubSeq(s, Len(s) - k + 1, Len(s))

\* s.slice(0, k)
SliceFirst(s, k) == IF Len(s) <= k THEN s ELSE SubSeq(s, 1, k)

\* s.replace(/\s+/g, '')
RemoveWhitespace(s) == SelectSeq(s, LAMBDA c : c \notin Whitespace)

\* the prefix cut from the raw name, whitespace included
generatePatientIdRawPrefix(patientName, now) ==
    ToUpperCase(SliceFirst(patientName, 3)) \o SliceLast(NumberToString(now), 6)

\* `${namePrefix}${timestamp}` with now the value of Date.now()
generatePatientId(patientName, now) ==
    ToUpperCase(SliceFirst(RemoveWhitespace(patientName), 3))
        \o SliceLast(NumberToString(now), 6)

\* ------------------------------------------------------------------------
\* The save handlers: RecordForm.handleSave (the API form and the Supabase
\* form), Scanner.handleManualSave, EditableRecordDialog.handleSave
\* ------------------------------------------------------------------------

SavePaths == {"RecordForm", "RecordFormSupabase", "ManualEntry", "EditDialog"}

\* the validation without the trim
NameMissingUntrimmed(f) == f.patientName = <<>>

\* !fields.patientName.trim()
NameMissing(f) == Trim(f.patientName) = <<>>

\* the handlers that begin with `if (!user) return`
NeedsUser(path) == path # "EditDialog"

\* the handlers that upload the scanned image before the record
Uploads(path) == path \in {"RecordForm", "RecordFormSupabase"}

NaN == [t |-> "number", v |-> S("NaN")]

\* the digits parseInt reads: leading whitespace skipped, then the longest run
\* of decimal digits (the model's ages carry no sign)
ParseIntDigits(s) ==
    LET body == {i \in 1..Len(s) : s[i] \notin Whitespace}
        from == IF body = {} THEN Len(s) + 1 ELSE Min(body)
    IN  SubSeq(s, from, from + RunLen(s, from, Digits(s)) - 1)

\* the digits of a number without its leading zeros
StripZeros(d) ==
    LET nz == {i \in 1..Len(d) : d[i] # "0"}
    IN  IF nz = {} THEN S("0") ELSE SubSeq(d, Min(nz), Len(d))

\* parseInt(s)
ParseInt(s) ==
    IF ParseIntDigits(s) = <<>> THEN NaN ELSE Num(StripZeros(ParseIntDigits(s)))

\* a yyyy-mm-dd date string, the form a type="date" input produces
IsIsoDate(d) ==
    /\ Len(d) = 10
    /\ \A i \in {1, 2, 3, 4, 6, 7, 9, 10} : d[i] \in Digit
    /\ d[5] = "-" /\ d[8] = "-"
    /\ SubSeq(d, 6, 7) \in {S("01"), S("02"), S("03"), S("04"), S("05"), S("06"),
                           S("07"), S("08"), S("09"), S("10"), S("11"), S("12")}
    /\ SubSeq(d, 9, 10) # S("00")
    /\ (d[9] \in {"0", "1", "2"} \/ SubSeq(d, 9, 10) \in {S("30"), S("31")})

\* new Date(d).toISOString().split('T')[0] for the dates of the model: a
\* yyyy-mm-dd string is read as that UTC day; a string Date cannot parse is an
\* Invalid Date, on which toISOString throws a RangeError
DateToIso(d) ==
    IF IsIsoDate(d) THEN [throws |-> FALSE, v |-> d]
    ELSE [throws |-> TRUE, v |-> <<>>]

\* x || '' and x || null on a form string
OrEmpty(s) == Str(s)

OrNull(s) == IF s = <<>> THEN Null ELSE Str(s)

\* fields.age ? parseInt(fields.age) : null
AgeOrNull(s) == IF s = <<>> THEN Null ELSE ParseInt(s)

\* the record handed to the store by each handler; `throws` when building it
\* raises (the RangeError of an Invalid Date)
Payload(path, f, id, today, image) ==
    CASE path = "RecordForm" ->
           LET d == IF f.date # <<>> THEN DateToIso(f.date)
                    ELSE [throws |-> FALSE, v |-> today]
           IN  [throws |-> d.throws,
                op |-> "createMedicalRecord",
                patientId |-> Str(id),
                patientName |-> Str(f.patientName),
                age |-> OrEmpty(f.age),
                gender |-> OrEmpty(f.gender),
                date |-> Str(d.v),
                diagnosis |-> OrEmpty(f.diagnosis),
                prescription |-> OrEmpty(f.prescription),
                imageUrl |-> OrEmpty(image)]
      [] path = "RecordFormSupabase" ->
           LET d == IF f.date # <<>> THEN DateToIso(f.date)
                    ELSE [throws |-> FALSE, v |-> today]
           IN  [throws |-> d.throws,
                op |-> "insert",
                patientId |-> Str(id),
                patientName |-> Str(f.patientName),
                age |-> AgeOrNull(f.age),
                gender |-> OrNull(f.gender),
                date |-> Str(d.v),
                diagnosis |-> OrNull(f.diagnosis),
                prescription |-> OrNull(f.prescription),
                imageUrl |-> OrNull(image)]
      [] path = "ManualEntry" ->
           [throws |-> FALSE,
            op |-> "insert",
            patientId |-> Str(id),
            patientName |-> Str(f.patientName),
            age |-> AgeOrNull(f.age),
            gender |-> OrNull(f.gender),
            date |-> Str(IF f.date # <<>> THEN f.date ELSE today),
            diagnosis |-> OrNull(f.diagnosis),
            prescription |-> OrNull(f.prescription),
            imageUrl |-> Null]
      [] path = "EditDialog" ->
           [throws |-> FALSE,
            op |-> "updateMedicalRecord",
            patientId |-> Undefined,
            patientName |-> Str(f.patientName),
            age |-> OrEmpty(f.age),
            gender |-> OrEmpty(f.gender),
            date |-> Str(IF f.date # <<>> THEN f.date ELSE today),
            diagnosis |-> OrEmpty(f.diagnosis),
            prescription |-> OrEmpty(f.prescription),
            imageUrl |-> Undefined]

\* the last element of a non-empty sequence
Last(s) == s[Len(s)]

\* ---- EditableRecordDialog on a record of the dashboard ----

\* the dashboard's records as loaded
DashboardRecords ==
    <<[id |-> "r1", patient_id |-> S("JOH412400"),
       patient_name |-> Str(S("John Smith")), age |-> Num(S("34")),
       gender |-> Str(S("Male")), date_recorded |-> Str(S("2024-03-12")),
       diagnosis |-> Str(S("flu")), prescription |-> Null],
      [id |-> "r2", patient_id |-> S("ALB000042"),
       patient_name |-> Str(S("Al Bo")), age |-> Null,
       gender |-> Null, date_recorded |-> Str(S("2024-03-12")),
       diagnosis |-> Null, prescription |-> Null]>>

\* the dialog's record prop: the dashboard's editingRecord
EditedRecord == DashboardRecords[1]

\* what apiService.updateMedicalRecord can resolve to for a payload: the
\* stored record, whose patientId the server may keep or compute anew
ServerAnswers(pl) ==
    {[patientId |-> Str(id), patientName |-> pl.patientName, age |-> pl.age,
      gender |-> pl.gender, date |-> pl.date, diagnosis |-> pl.diagnosis,
      prescription |-> pl.prescription] :
        id \in {EditedRecord.patient_id,
                generatePatientId(pl.patientName.v, 2000999999)}}

\* the formatted record that takes the id the server answered with
FormattedRecordServerId(record, updated) ==
    [record EXCEPT !.patient_id = updated.patientId.v,
                   !.patient_name = updated.patientName,
                   !.age = IF Falsy(updated.age) THEN Null
                           ELSE ParseInt(updated.age.v),
                   !.gender = updated.gender,
                   !.date_recorded = updated.date,
                   !.diagnosis = updated.diagnosis,
                   !.prescription = updated.prescription]

\* formattedRecord: { ...record, patient_name: updatedRecord.patientName, ... }
FormattedRecord(record, updated) ==
    [record EXCEPT !.patient_name = updated.patientName,
                   !.age = IF Falsy(updated.age) THEN Null
                           ELSE ParseInt(updated.age.v),
                   !.gender = updated.gender,
                   !.date_recorded = updated.date,
                   !.diagnosis = updated.diagnosis,
                   !.prescription = updated.prescription]

\* records.map(r => r.id === updatedRecord.id ? updatedRecord : r)
handleRecordUpdate(recs, updated) ==
    [i \in 1..Len(recs) |-> IF recs[i].id = updated.id THEN updated ELSE recs[i]]

\* ---- Scanner.processImage ----

\* the Scanner that enhances the text (components/Scanner.tsx) and the one
\* that hands the OCR text on as it is
Scanners == {"Scanner", "ScannerPlain"}

\* a camera capture (a data URL), an image file, a file of another type
Sources == {"camera", "image", "file"}

\* useState<string | null>(null)
NoPreview == "null"

NotImage == "Please select an image file"

OcrThrew == "Failed to extract text from image"

NoText == "No text could be extracted from the image"

FetchThrew == "Failed to fetch"

ScanSuccess(p) ==
    IF p = "Scanner" THEN "Text extracted and enhanced successfully"
    ELSE "Text extracted successfully from image"

\* the test without the trim
BlankTextUntrimmed(text) == text = <<>>

\* !extractedText.trim()
BlankText(text) == Trim(text) = <<>>

\* a string that is not a JSON document, as an onExtracted argument
Raw(chars) == [kind |-> "raw", chars |-> chars, doc |-> <<>>]

\* JSON.stringify(x): an object is written with the keys whose value is not
\* undefined; JSON.stringify(undefined) is undefined, not a string
Stringify(x) ==
    IF DOMAIN x = ObjKeys
    THEN [kind |-> "json", chars |-> <<>>,
          doc |-> [k \in {j \in ObjKeys : x[j].t # "undefined"} |-> x[k]]]
    ELSE [kind |-> "undefined", chars |-> <<>>, doc |-> <<>>]

\* the Promise the async LocalOCRService.extractFields returns, as a field
\* state: every field read of it is undefined
PromiseFields == [k \in ObjKeys |-> Undefined]

\* the initial state of RecordForm's fields: JSON.parse(extractedText) when it
\* is an object whose patientName is not undefined, a missing key reading as
\* undefined; in every other case (the parse throws on text that is no JSON
\* document and on undefined) localOCRService.extractFields(extractedText)
InitialFields(arg) ==
    IF arg.kind = "json" /\ "patientName" \in DOMAIN arg.doc
    THEN [k \in ObjKeys |-> IF k \in DOMAIN arg.doc THEN arg.doc[k] ELSE Undefined]
    ELSE PromiseFields

\* ------------------------------------------------------------------------
\* One scan: the OCR text and the extraction entry points applied to it
\* ------------------------------------------------------------------------

VARIABLES
    extractedText,  \* the text OCR produced for the image
    pc,             \* where the scan is
    fields,         \* RecordForm's initial state, OCRService.extractFields
    localFields,    \* what LocalOCRService.extractFields resolved to
    hf,             \* what the text-generation endpoint did
    response,       \* the edge function's answer
    enhanced,       \* what AIService.enhanceExtraction resolved to
    path,           \* the form whose Save is pressed
    user,           \* useAuth().user is set
    form,           \* the form's field state
    imageUrl,       \* the imageUrl prop: "blob", "data" or ""
    busy,           \* isSaving / isProcessing
    step,           \* the await the handler is suspended at
    toasts,         \* the notices shown, oldest first
    calls,          \* the calls issued to storage and store, oldest first
    patientId,      \* the id computed by the save in flight
    clock,          \* the Date.now() that id was computed from
    presses,        \* how often the handler was invoked
    saved,          \* how often onSaved / onBack / onClose was called
    closure,        \* the field state the handler in flight was created with
    records,        \* the dashboard's records state
    source,         \* what processImage was called with
    preview,        \* the Scanner's preview state
    handed,         \* the arguments of the onExtracted calls, oldest first
    token,          \* APIService.token
    localStorage,   \* window.localStorage, by key
    session,        \* the Supabase AuthProvider's session state is set
    inflight,       \* the promises and events that have not settled yet
    profiles        \* the doctor profiles the server holds

scanVars == <<extractedText, pc, fields, localFields, hf, response, enhanced>>

scanVarsButPc == <<extractedText, fields, localFields, hf, response, enhanced>>

scannerVars == <<source, preview, handed>>

accountVars == <<token, localStorage, session, inflight, profiles>>

saveVars ==
    <<path, user, form, imageUrl, busy, step, toasts, calls, patientId,
      clock, presses, saved, closure, records, scannerVars, accountVars>>

saveVarsButCalls ==
    <<path, user, form, imageUrl, busy, step, toasts, patientId, clock,
      presses, saved, closure, records, scannerVars, accountVars>>

vars == <<scanVars, saveVars>>

None == [none |-> TRUE]

\* the keys of localStorage the program reads and writes; "sb-session" is
\* the key the Supabase client keeps its session under
StorageKeys == {"auth_token", "user", "user_logged_out", "sb-session"}

\* localStorage.getItem(key) of a key that is not there
NoItem == "null"

EmptyStorage == [k \in StorageKeys |-> NoItem]

\* nobody has signed in, no doctor profile exists
AccountIdle ==
    /\ token = "null"
    /\ localStorage = EmptyStorage
    /\ session = FALSE
    /\ inflight = {}
    /\ profiles = {}

\* no image has been handed to the Scanner
ScannerIdle ==
    /\ source = "none"
    /\ preview = NoPreview
    /\ handed = <<>>

\* no form is open
FormIdle ==
    /\ path = "RecordForm"
    /\ user = FALSE
    /\ form = EmptyFields
    /\ imageUrl = ""
    /\ busy = FALSE
    /\ step = "idle"
    /\ toasts = <<>>
    /\ calls = <<>>
    /\ patientId = <<>>
    /\ clock = 0
    /\ presses = 0
    /\ saved = 0
    /\ closure = None
    /\ records = <<>>

SaveIdle ==
    /\ FormIdle
    /\ ScannerIdle
    /\ AccountIdle

\* no scan has been made
NoScan ==
    /\ extractedText = <<>>
    /\ fields = None
    /\ localFields = None
    /\ hf = None
    /\ enhanced = None

Init ==
    /\ extractedText \in Texts
    /\ pc = "scanned"
    /\ fields = None
    /\ localFields = None
    /\ hf = None
    /\ response = None
    /\ enhanced = None
    /\ SaveIdle

\* RecordForm: useState(() => OCRService.extractFields(extractedText))
RecordFormInit ==
    /\ pc = "scanned"
    /\ fields' = extractFields(extractedText)
    /\ pc' = "review"
    /\ UNCHANGED <<extractedText, localFields, hf, response, enhanced>>
    /\ UNCHANGED saveVars

\* LocalOCRService.extractFields(text)
LocalExtractFields ==
    /\ pc = "scanned"
    /\ \E outcome \in LocalOutcomes, served \in ServedFields :
          localFields' = LocalExtractResult(extractedText, outcome, served)
    /\ pc' = "local"
    /\ UNCHANGED <<extractedText, fields, hf, response, enhanced>>
    /\ UNCHANGED saveVars

\* AIService.enhanceExtraction: supabase.functions.invoke is called
InvokeEnhance ==
    /\ pc = "scanned"
    /\ calls' = Append(calls, InvokeRequest)
    /\ pc' = "invoked"
    /\ UNCHANGED <<extractedText, fields, localFields, hf, response, enhanced>>
    /\ UNCHANGED saveVarsButCalls

\* the call does not reach the function
InvokeFails ==
    /\ pc = "invoked"
    /\ response' = Unreachable
    /\ pc' = "answered"
    /\ UNCHANGED <<extractedText, fields, localFields, hf, enhanced>>
    /\ UNCHANGED saveVars

\* the edge function handles the request
EdgeServe ==
    /\ pc = "invoked"
    /\ LET m == EdgeMatches(extractedText)
       IN  \E o \in HfOutcomes :
              /\ hf' = o
              /\ response' = EdgeHandler(m, o)
    /\ calls' = Append(calls, GenerationRequest)
    /\ pc' = "answered"
    /\ UNCHANGED <<extractedText, fields, localFields, enhanced>>
    /\ UNCHANGED saveVarsButCalls

\* enhanceExtraction returns, from the try block or from the catch block
EnhanceResolve ==
    /\ pc = "answered"
    /\ enhanced' = EnhanceResult(extractedText, response)
    /\ pc' = EnhanceReturns(response)
    /\ UNCHANGED <<extractedText, fields, localFields, hf, response>>
    /\ UNCHANGED saveVars

Next ==
    \/ RecordFormInit
    \/ LocalExtractFields
    \/ InvokeEnhance
    \/ InvokeFails
    \/ EdgeServe
    \/ EnhanceResolve

Spec == Init /\ [][Next]_vars

\* ------------------------------------------------------------------------
\* One open form and its Save
\* ------------------------------------------------------------------------

\* how often Save is pressed on one form
MaxSaves == 2

FormNames == {<<>>, S("   "), S("John Smith"), S("Al Bo"), S(" Jo ")}

FormAges == {<<>>, S("34"), S("abc")}

FormGenders == {<<>>, S("Male"), S("F")}

FormDates == {<<>>, S("2024-03-12"), S("31/12/2024")}

Forms ==
    {[patientName |-> n, age |-> a, gender |-> g, date |-> d,
      diagnosis |-> <<>>, prescription |-> <<>>] :
        n \in FormNames, a \in FormAges, g \in FormGenders, d \in FormDates}

\* values of Date.now(), within TLC's integers; like a real millisecond clock
\* every one has more than six digits
Timestamps == {1762412400, 1762000042, 2000999999}

\* new Date().toISOString().split('T')[0]
Today == S("2026-11-06")

\* the public URL of an uploaded image
UploadedUrl == S("https://store/img.jpg")

InitSave ==
    /\ extractedText = <<>>
    /\ pc = "review"
    /\ fields = None
    /\ localFields = None
    /\ hf = None
    /\ response = None
    /\ enhanced = None
    /\ path \in SavePaths
    /\ user \in BOOLEAN
    /\ form \in Forms
    /\ imageUrl \in (IF Uploads(path) THEN {"blob", "data", ""} ELSE {""})
    /\ busy = FALSE
    /\ step = "idle"
    /\ toasts = <<>>
    /\ calls = <<>>
    /\ patientId = <<>>
    /\ clock = 0
    /\ presses = 0
    /\ saved = 0
    /\ closure = None
    /\ records = (IF path = "EditDialog" THEN DashboardRecords ELSE <<>>)
    /\ ScannerIdle
    /\ AccountIdle

Required == "Patient name is required"

Failure(p) ==
    IF p = "EditDialog" THEN "Failed to update medical record"
    ELSE "Failed to save medical record"

Success(p) ==
    IF p = "EditDialog" THEN "Medical record updated successfully"
    ELSE "Medical record saved successfully"

\* a catch block with no finally block after it
CaughtNoFinally ==
    /\ toasts' = Append(toasts, Failure(path))
    /\ busy' = busy
    /\ step' = "idle"

\* the catch and finally blocks: the error notice, the flag cleared
Caught ==
    /\ toasts' = Append(toasts, Failure(path))
    /\ busy' = FALSE
    /\ step' = "idle"

\* the record call is issued, unless building its payload throws
SendRecord(f, id, image) ==
    LET pl == Payload(path, f, id, Today, image)
    IN  IF pl.throws
        THEN Caught /\ calls' = calls
        ELSE /\ calls' = Append(calls, pl)
             /\ busy' = TRUE
             /\ step' = "saving"
             /\ toasts' = toasts

\* an upload of every image there is
IsAnyUrl(url) == url # ""

\* imageUrl && imageUrl.startsWith('blob:')
IsBlobUrl(url) == url = "blob"

\* the id generated from the name the extraction gave
NameAtSaveExtracted == fields.patientName

\* a Save button that is never disabled
SaveAlwaysEnabled == TRUE

\* the Save button: disabled={isSaving}
SaveEnabled == ~busy

\* the name the id is generated from: fields.patientName of the render whose
\* Save was pressed
NameAtSave == form.patientName

\* Save is pressed: the handler runs to its first return or await
PressSave ==
    /\ SaveEnabled
    /\ presses < MaxSaves
    /\ path = "EditDialog" => saved = 0
    /\ presses' = presses + 1
    /\ closure' = form
    /\ \E now \in Timestamps :
          IF NeedsUser(path) /\ ~user
          THEN UNCHANGED <<busy, step, toasts, calls, patientId, clock>>
          ELSE IF NameMissing(form)
          THEN /\ toasts' = Append(toasts, Required)
               /\ UNCHANGED <<busy, step, calls, patientId, clock>>
          ELSE IF path = "EditDialog"
          THEN /\ SendRecord(form, <<>>, <<>>)
               /\ UNCHANGED <<patientId, clock>>
          ELSE /\ clock' = now
               /\ patientId' = generatePatientId(NameAtSave, now)
               /\ IF Uploads(path) /\ IsBlobUrl(imageUrl)
                  THEN /\ busy' = TRUE
                       /\ step' = "fetching"
                       /\ UNCHANGED <<toasts, calls>>
                  ELSE SendRecord(form, patientId', <<>>)
    /\ UNCHANGED <<path, user, form, imageUrl, saved, records>>
    /\ UNCHANGED scanVars
    /\ UNCHANGED scannerVars
    /\ UNCHANGED accountVars

\* await fetch(imageUrl) and response.blob() settle; the upload is issued
BlobFetched ==
    /\ step = "fetching"
    /\ \E ok \in BOOLEAN :
          IF ok
          THEN /\ calls' = Append(calls, [op |-> "upload", throws |-> FALSE])
               /\ step' = "uploading"
               /\ UNCHANGED <<busy, toasts>>
          ELSE Caught /\ calls' = calls
    /\ UNCHANGED <<path, user, form, imageUrl, patientId, clock, presses, saved,
                    closure, records>>
    /\ UNCHANGED scanVars
    /\ UNCHANGED scannerVars
    /\ UNCHANGED accountVars

\* the upload settles: it succeeds, answers with an error, or rejects
UploadSettles ==
    /\ step = "uploading"
    /\ \E outcome \in {"ok", "error", "rejects"} :
          IF outcome = "ok" THEN SendRecord(closure, patientId, UploadedUrl)
          ELSE IF outcome = "error" /\ path = "RecordFormSupabase"
          THEN SendRecord(closure, patientId, <<>>)
          ELSE Caught /\ calls' = calls
    /\ UNCHANGED <<path, user, form, imageUrl, patientId, clock, presses, saved,
                    closure, records>>
    /\ UNCHANGED scanVars
    /\ UNCHANGED scannerVars
    /\ UNCHANGED accountVars

\* the create / insert / update call settles
RecordSettles ==
    /\ step = "saving"
    /\ \E ok \in BOOLEAN :
          IF ok
          THEN /\ IF path = "EditDialog"
                  THEN \E updated \in ServerAnswers(Last(calls)) :
                          records' = handleRecordUpdate(
                                         records, FormattedRecord(EditedRecord, updated))
                  ELSE records' = records
               /\ toasts' = Append(toasts, Success(path))
               /\ saved' = saved + 1
               /\ busy' = FALSE
               /\ step' = "idle"
          ELSE Caught /\ saved' = saved /\ records' = records
    /\ UNCHANGED <<path, user, form, imageUrl, calls, patientId, clock, presses,
                    closure>>
    /\ UNCHANGED scanVars
    /\ UNCHANGED scannerVars
    /\ UNCHANGED accountVars

NextSave ==
    \/ PressSave
    \/ BlobFetched
    \/ UploadSettles
    \/ RecordSettles

SpecSave == InitSave /\ [][NextSave]_vars

\* ------------------------------------------------------------------------
\* A review form whose name field is edited, before and during a save
\* ------------------------------------------------------------------------

\* the forms an extraction opens the review with
ExtractedForms ==
    {f \in Forms : /\ f.patientName \in {S("John Smith"), S(" Jo ")}
                   /\ f.age = <<>> /\ f.gender = <<>> /\ f.date = <<>>}

\* the names typed into the name input
EditedNames == {<<>>, S("John Smith"), S("Al Bo")}

InitEdit ==
    /\ extractedText = <<>>
    /\ pc = "review"
    /\ fields \in ExtractedForms
    /\ localFields = None
    /\ hf = None
    /\ response = None
    /\ enhanced = None
    /\ path \in {"RecordForm", "RecordFormSupabase"}
    /\ user = TRUE
    /\ form = fields
    /\ imageUrl \in {"blob", ""}
    /\ busy = FALSE
    /\ step = "idle"
    /\ toasts = <<>>
    /\ calls = <<>>
    /\ patientId = <<>>
    /\ clock = 0
    /\ presses = 0
    /\ saved = 0
    /\ closure = None
    /\ records = <<>>
    /\ ScannerIdle
    /\ AccountIdle

\* onChange of the name input: setFields({...fields, patientName: value});
\* the input is enabled while a save is in flight
EditName ==
    /\ \E n \in EditedNames :
          /\ n # form.patientName
          /\ form' = [form EXCEPT !.patientName = n]
    /\ UNCHANGED <<path, user, imageUrl, busy, step, toasts, calls, patientId,
                    clock, presses, saved, closure, records>>
    /\ UNCHANGED scanVars
    /\ UNCHANGED scannerVars
    /\ UNCHANGED accountVars

NextEdit ==
    \/ NextSave
    \/ EditName

SpecEdit == InitEdit /\ [][NextEdit]_vars

\* ------------------------------------------------------------------------
\* Scanner.processImage, from the image to onExtracted
\* ------------------------------------------------------------------------

\* how many images one Scanner is given
MaxScans == 2

\* what OCRService.extractText can resolve to
ScanTexts ==
    {<<>>, S(" \n "), S("Name: Jane Doe"), S("patient 12"), S("Al Bo 7\n Age: 34 ")}

InitScan ==
    /\ extractedText = <<>>
    /\ pc = "select"
    /\ fields = None
    /\ localFields = None
    /\ hf = None
    /\ response = None
    /\ enhanced = None
    /\ path \in Scanners
    /\ user = TRUE
    /\ form = EmptyFields
    /\ imageUrl = ""
    /\ busy = FALSE
    /\ step = "idle"
    /\ toasts = <<>>
    /\ calls = <<>>
    /\ patientId = <<>>
    /\ clock = 0
    /\ presses = 0
    /\ saved = 0
    /\ closure = None
    /\ records = <<>>
    /\ ScannerIdle
    /\ AccountIdle

\* the catch and finally blocks of processImage
ScanCaught(message) ==
    /\ toasts' = Append(toasts, message)
    /\ preview' = NoPreview
    /\ busy' = FALSE
    /\ step' = "idle"
    /\ pc' = "failed"

\* processImage is called and runs to its first await or to its end
StartProcess ==
    /\ pc \in {"select", "failed"}
    /\ ~busy
    /\ presses < MaxScans
    /\ presses' = presses + 1
    /\ extractedText' = <<>>
    /\ \E s \in Sources :
          /\ source' = s
          /\ IF s = "camera"
             THEN /\ imageUrl' = "data"
                  /\ busy' = TRUE
                  /\ step' = "fetching"
                  /\ pc' = "processing"
                  /\ UNCHANGED <<toasts, preview>>
             ELSE IF s = "file"
             THEN /\ ScanCaught(NotImage)
                  /\ UNCHANGED imageUrl
             ELSE /\ imageUrl' = "blob"
                  /\ preview' = "blob"
                  /\ busy' = TRUE
                  /\ step' = "ocr"
                  /\ pc' = "processing"
                  /\ UNCHANGED <<toasts>>
    /\ UNCHANGED <<fields, localFields, hf, response, enhanced>>
    /\ UNCHANGED <<path, user, form, calls, patientId, clock, saved, closure,
                    records, handed>>
    /\ UNCHANGED accountVars

\* await fetch(imageSource) and response.blob() settle
ImageFetched ==
    /\ step = "fetching"
    /\ source = "camera"
    /\ \E ok \in BOOLEAN :
          IF ok THEN /\ step' = "ocr"
                     /\ UNCHANGED <<toasts, preview, busy, pc>>
          ELSE ScanCaught(FetchThrew)
    /\ UNCHANGED scanVarsButPc
    /\ UNCHANGED <<path, user, form, imageUrl, calls, patientId, clock, presses,
                    saved, closure, records, source, handed>>
    /\ UNCHANGED accountVars

\* OCRService.extractText settles, and processImage runs on to its next await
\* or to its end
OcrSettles ==
    /\ step = "ocr"
    /\ \/ /\ ScanCaught(OcrThrew)
          /\ UNCHANGED <<extractedText, handed>>
       \/ \E text \in ScanTexts :
             /\ extractedText' = text
             /\ IF BlankText(text)
                THEN ScanCaught(NoText) /\ handed' = handed
                ELSE IF path = "Scanner"
                THEN /\ pc' = "scanned"
                     /\ step' = "enhancing"
                     /\ UNCHANGED <<toasts, preview, busy, handed>>
                ELSE /\ handed' = Append(handed, [text |-> Raw(text),
                                                   imageUrl |-> imageUrl])
                     /\ toasts' = Append(toasts, ScanSuccess(path))
                     /\ busy' = FALSE
                     /\ step' = "idle"
                     /\ pc' = "done"
                     /\ UNCHANGED preview
    /\ UNCHANGED <<fields, localFields, hf, response, enhanced>>
    /\ UNCHANGED <<path, user, form, imageUrl, calls, patientId, clock, presses,
                    saved, closure, records, source>>
    /\ UNCHANGED accountVars

\* AIService.enhanceExtraction has resolved: the record is serialized and
\* handed to onExtracted, the success notice is shown
Handover ==
    /\ step = "enhancing"
    /\ pc = "enhanced"
    /\ handed' = Append(handed, [text |-> Stringify(enhanced),
                                 imageUrl |-> imageUrl])
    /\ toasts' = Append(toasts, ScanSuccess(path))
    /\ busy' = FALSE
    /\ step' = "idle"
    /\ pc' = "done"
    /\ UNCHANGED scanVarsButPc
    /\ UNCHANGED <<path, user, form, imageUrl, calls, patientId, clock, presses,
                    saved, closure, records, source, preview>>
    /\ UNCHANGED accountVars

\* handleManualInput of the plain Scanner: onExtracted('', '')
ManualInput ==
    /\ path = "ScannerPlain"
    /\ pc \in {"select", "failed"}
    /\ ~busy
    /\ handed' = Append(handed, [text |-> Raw(<<>>), imageUrl |-> ""])
    /\ pc' = "done"
    /\ UNCHANGED scanVarsButPc
    /\ UNCHANGED <<path, user, form, imageUrl, busy, step, toasts, calls,
                    patientId, clock, presses, saved, closure, records, source,
                    preview>>
    /\ UNCHANGED accountVars

\* RecordForm (components/RecordForm.tsx) is mounted with the text handed on
RecordFormMount ==
    /\ pc = "done"
    /\ fields' = InitialFields(Last(handed).text)
    /\ pc' = "review"
    /\ UNCHANGED <<extractedText, localFields, hf, response, enhanced>>
    /\ UNCHANGED saveVars

NextScan ==
    \/ StartProcess
    \/ ImageFetched
    \/ OcrSettles
    \/ InvokeEnhance
    \/ InvokeFails
    \/ EdgeServe
    \/ EnhanceResolve
    \/ Handover
    \/ ManualInput
    \/ RecordFormMount

SpecScan == InitScan /\ [][NextScan]_vars

\* ------------------------------------------------------------------------
\* Gender tokens after every gender label
\* ------------------------------------------------------------------------

MaleTokens == {S("m"), S("M"), S("male"), S("Male"), S("man")}

FemaleTokens == {S("f"), S("F"), S("female"), S("Female"), S("woman")}

GenderTexts ==
    {l \o sep \o tok :
        l \in {S("Gender"), S("sex"), S("M/F"), S("patient")},
        sep \in {<<>>, S(": "), S(" ")},
        tok \in MaleTokens \cup FemaleTokens \cup {S("MALE"), S("Woman"), S("other")}}

InitGender ==
    /\ extractedText \in GenderTexts
    /\ pc = "scanned"
    /\ fields = None
    /\ localFields = None
    /\ hf = None
    /\ response = None
    /\ enhanced = None
    /\ SaveIdle

SpecGender == InitGender /\ [][Next]_vars

\* ------------------------------------------------------------------------
\* The three local extractors on one text
\* ------------------------------------------------------------------------

\* lines with numbers outside any label, an age over three digits, a
\* date-shaped token after an age label, a gender label without a token
OcrExtraLines ==
    <<S("seen 100 times"), S("wt 05 kg"), S("visit 2024"), S("Age: 1507"),
      S("birth: 01/02/1990"), S("Gender: other"), S("Name: Jo Li")>>

OcrTexts ==
    {OcrExtraLines[i] : i \in 1..Len(OcrExtraLines)}
    \cup {Join(<<OcrExtraLines[i], SampleLines[j]>>) :
             i \in 1..Len(OcrExtraLines), j \in 1..Len(SampleLines)}
    \cup {Join(<<SampleLines[j], OcrExtraLines[i]>>) :
             i \in 1..Len(OcrExtraLines), j \in 1..Len(SampleLines)}

InitOcr ==
    /\ extractedText \in Texts \cup OcrTexts \cup GenderTexts
    /\ pc = "scanned"
    /\ fields = None
    /\ localFields = None
    /\ hf = None
    /\ response = None
    /\ enhanced = None
    /\ SaveIdle

\* the entry points that extract on the client: RecordForm's initial state,
\* LocalOCRService.extractFields, and enhanceExtraction when the call fails
NextOcr ==
    \/ RecordFormInit
    \/ LocalExtractFields
    \/ InvokeEnhance
    \/ InvokeFails
    \/ EnhanceResolve

SpecOcr == InitOcr /\ [][NextOcr]_vars

\* ------------------------------------------------------------------------
\* One call of AIService.enhanceExtraction and the requests it causes
\* ------------------------------------------------------------------------

EnhanceTexts == {SampleLines[i] : i \in 1..Len(SampleLines)} \cup {E2EText}

InitEnhance ==
    /\ extractedText \in EnhanceTexts
    /\ pc = "scanned"
    /\ fields = None
    /\ localFields = None
    /\ hf = None
    /\ response = None
    /\ enhanced = None
    /\ SaveIdle

NextEnhance == InvokeEnhance \/ InvokeFails \/ EdgeServe \/ EnhanceResolve

SpecEnhance == InitEnhance /\ [][NextEnhance]_vars

\* ------------------------------------------------------------------------
\* APIService: the token, the stored session and the requests
\*                                          src/services/localOCRService.ts
\* ------------------------------------------------------------------------

\* the most requests one behaviour issues
MaxRequests == 3

Tokens == {"t1", "t2"}

\* a property the response does not have
Absent == "undefined"

\* what signIn gets: the parsed body of a 2xx answer, with or without token
\* and user, or the { error } of its catch block
AuthResponses ==
    {[token |-> tk, user |-> u, error |-> FALSE] :
        tk \in Tokens \cup {Absent}, u \in {"u1", Absent}}
    \cup {[token |-> Absent, user |-> Absent, error |-> TRUE]}

\* JSON.stringify of the user object "u1"
JsonOfUser == "{id:u1}"

\* JSON.stringify(response.user), as localStorage keeps it: setItem turns
\* the undefined of a missing user into the string "undefined"
StoredUser(u) == IF u = Absent THEN "undefined" ELSE JsonOfUser

\* getCurrentUser(): null without the entry, the parsed entry otherwise,
\* and JSON.parse throws on "undefined"
getCurrentUser(ls) ==
    IF ls["user"] = NoItem THEN "null"
    ELSE IF ls["user"] = JsonOfUser THEN "u1"
    ELSE "throws"

\* a signOut that forgets the user entry
RemoveTokenOnly(ls) == [ls EXCEPT !["auth_token"] = NoItem]

\* signOut: removeItem('auth_token'), removeItem('user')
RemoveSession(ls) == [ls EXCEPT !["auth_token"] = NoItem, !["user"] = NoItem]

\* request(): the Authorization header is there when this.token is truthy
Request(endpoint) == [op |-> endpoint, auth |-> token]

\* what does not belong to the service
apiFrame ==
    <<extractedText, fields, localFields, hf, enhanced, path, user, form,
      imageUrl, busy, step, toasts, patientId, clock, presses, saved, closure,
      records, scannerVars, session, profiles>>

\* new APIService(): the token is read from localStorage
InitApi ==
    /\ NoScan
    /\ pc = "constructed"
    /\ response = None
    /\ FormIdle
    /\ ScannerIdle
    /\ session = FALSE
    /\ profiles = {}
    /\ inflight = {}
    /\ localStorage \in {EmptyStorage,
                          [EmptyStorage EXCEPT !["auth_token"] = "t1",
                                               !["user"] = JsonOfUser]}
    /\ token = localStorage["auth_token"]

\* signIn is called: the request is issued
ApiSignIn ==
    /\ "signIn" \notin inflight
    /\ Len(calls) < MaxRequests
    /\ calls' = Append(calls, Request("/auth/signin"))
    /\ inflight' = inflight \cup {"signIn"}
    /\ UNCHANGED <<token, localStorage, response, pc>>
    /\ UNCHANGED apiFrame

\* the request of signIn settles
ApiSignInSettles ==
    /\ "signIn" \in inflight
    /\ inflight' = inflight \ {"signIn"}
    /\ \E r \in AuthResponses :
          /\ response' = r
          /\ IF r.token # Absent
             THEN /\ token' = r.token
                  /\ localStorage' = [localStorage EXCEPT
                                         !["auth_token"] = r.token,
                                         !["user"] = StoredUser(r.user)]
                  /\ pc' = "signedIn"
             ELSE UNCHANGED <<token, localStorage, pc>>
    /\ UNCHANGED calls
    /\ UNCHANGED apiFrame

\* signOut()
ApiSignOut ==
    /\ token' = "null"
    /\ localStorage' = RemoveSession(localStorage)
    /\ pc' = "signedOut"
    /\ UNCHANGED <<calls, inflight, response>>
    /\ UNCHANGED apiFrame

\* any other method of the service issues its request
ApiRequest ==
    /\ Len(calls) < MaxRequests
    /\ \E endpoint \in {"/medical-records", "/upload"} :
          calls' = Append(calls, Request(endpoint))
    /\ UNCHANGED <<token, localStorage, inflight, response, pc>>
    /\ UNCHANGED apiFrame

NextApi ==
    \/ ApiSignIn
    \/ ApiSignInSettles
    \/ ApiSignOut
    \/ ApiRequest

SpecApi == InitApi /\ [][NextApi]_vars

\* ------------------------------------------------------------------------
\* Doctor management: create or delete a profile, then log the audit event
\*                 AddDoctorProfile.handleSubmit, ViewDoctorProfiles.handleDelete
\* ------------------------------------------------------------------------

\* the most submissions and deletions one behaviour starts
MaxSubmits == 3

DoctorPaths == {"AddDoctor", "ViewDoctors"}

\* error.message of what request() throws: its own Error, or fetch's
Errors == {"HTTP error! status: 500", "Failed to fetch"}

\* the doctor a handler is about: the one the form describes, or the one
\* whose row was clicked
DoctorOf(p, n) == IF p = "AddDoctor" THEN <<"new", n>> ELSE <<"old", n>>

DoctorSuccess(p) ==
    IF p = "AddDoctor" THEN "Doctor profile created successfully"
    ELSE "Doctor profile deleted successfully"

\* the description of the catch block's notice
DoctorFailure(p, err) ==
    IF p = "AddDoctor" THEN err ELSE "Failed to delete doctor profile"

FetchFailure == "Failed to fetch doctor profiles"

\* a catch block that reports success
DoctorCaughtAsSuccess(err) ==
    /\ toasts' = Append(toasts, DoctorSuccess(path))
    /\ busy' = FALSE
    /\ step' = "idle"

\* the catch block, and AddDoctorProfile's finally
DoctorCaught(err) ==
    /\ toasts' = Append(toasts, DoctorFailure(path, err))
    /\ busy' = FALSE
    /\ step' = "idle"

doctorFrame ==
    <<scanVars, path, user, form, imageUrl, patientId, clock, records,
      scannerVars, token, localStorage, session, inflight>>

InitDoctors ==
    /\ NoScan
    /\ pc = "review"
    /\ response = None
    /\ path \in DoctorPaths
    /\ user = TRUE
    /\ form = EmptyFields
    /\ imageUrl = ""
    /\ busy = FALSE
    /\ step = "idle"
    /\ toasts = <<>>
    /\ calls = <<>>
    /\ patientId = <<>>
    /\ clock = 0
    /\ presses = 0
    /\ saved = 0
    /\ closure = None
    /\ records = <<>>
    /\ ScannerIdle
    /\ token = "t1"
    /\ localStorage = EmptyStorage
    /\ session = FALSE
    /\ inflight = {}
    /\ profiles = {DoctorOf("ViewDoctors", n) : n \in 1..MaxSubmits}

\* AddDoctorProfile.handleSubmit up to its first await
SubmitDoctor ==
    /\ path = "AddDoctor"
    /\ ~busy
    /\ presses < MaxSubmits
    /\ presses' = presses + 1
    /\ closure' = [doctor |-> DoctorOf(path, presses')]
    /\ busy' = TRUE
    /\ step' = "creating"
    /\ calls' = Append(calls, [op |-> "createDoctorProfile"])
    /\ UNCHANGED <<toasts, saved, profiles>>
    /\ UNCHANGED doctorFrame

\* ViewDoctorProfiles.handleDelete up to its first await, or to its return
\* when the confirm dialog is dismissed
DeleteDoctor ==
    /\ path = "ViewDoctors"
    /\ step = "idle"
    /\ presses < MaxSubmits
    /\ presses' = presses + 1
    /\ \E confirmed \in BOOLEAN :
          IF confirmed
          THEN /\ closure' = [doctor |-> DoctorOf(path, presses')]
               /\ step' = "deleting"
               /\ calls' = Append(calls, [op |-> "deleteDoctorProfile"])
          ELSE UNCHANGED <<closure, step, calls>>
    /\ UNCHANGED <<busy, toasts, saved, profiles>>
    /\ UNCHANGED doctorFrame

\* createDoctorProfile / deleteDoctorProfile settles; on success the audit
\* event is sent
DoctorCallSettles ==
    /\ step \in {"creating", "deleting"}
    /\ \/ /\ profiles' = IF path = "AddDoctor"
                          THEN profiles \cup {closure.doctor}
                          ELSE profiles \ {closure.doctor}
          /\ calls' = Append(calls, [op |-> "logAuditEvent"])
          /\ step' = "auditing"
          /\ UNCHANGED <<busy, toasts>>
       \/ \E err \in Errors :
             /\ DoctorCaught(err)
             /\ UNCHANGED <<profiles, calls>>
    /\ UNCHANGED <<presses, saved, closure>>
    /\ UNCHANGED doctorFrame

\* logAuditEvent settles
AuditSettles ==
    /\ step = "auditing"
    /\ \/ IF path = "AddDoctor"
          THEN /\ toasts' = Append(toasts, DoctorSuccess(path))
               /\ saved' = saved + 1
               /\ busy' = FALSE
               /\ step' = "idle"
               /\ UNCHANGED calls
          ELSE /\ calls' = Append(calls, [op |-> "getDoctorProfiles"])
               /\ step' = "refreshing"
               /\ UNCHANGED <<toasts, saved, busy>>
       \/ \E err \in Errors :
             /\ DoctorCaught(err)
             /\ UNCHANGED <<calls, saved>>
    /\ UNCHANGED <<presses, closure, profiles>>
    /\ UNCHANGED doctorFrame

\* fetchDoctors settles (it catches its own error), then the success notice
RefreshSettles ==
    /\ step = "refreshing"
    /\ \E ok \in BOOLEAN :
          toasts' = IF ok THEN Append(toasts, DoctorSuccess(path))
                    ELSE toasts \o <<FetchFailure, DoctorSuccess(path)>>
    /\ step' = "idle"
    /\ UNCHANGED <<busy, calls, presses, saved, closure, profiles>>
    /\ UNCHANGED doctorFrame

NextDoctors ==
    \/ SubmitDoctor
    \/ DeleteDoctor
    \/ DoctorCallSettles
    \/ AuditSettles
    \/ RefreshSettles

SpecDoctors == InitDoctors /\ [][NextDoctors]_vars

\* ------------------------------------------------------------------------
\* The Supabase AuthProvider: mount, session restore, sign-out
\*                                                      src/hooks/useAuth.tsx
\* ------------------------------------------------------------------------

\* the most page loads one behaviour has
MaxLoads == 2

\* the Supabase client holds a session
HasSession(ls) == ls["sb-session"] # NoItem

\* localStorage.getItem('user_logged_out') is truthy
UserLoggedOut(ls) == ls["user_logged_out"] # NoItem

\* cleanupAuthState: every key that holds 'sb-' is removed
cleanupAuthState(ls) == [ls EXCEPT !["sb-session"] = NoItem]

\* what the effect of a mounting AuthProvider leaves pending: the first
\* event of the subscription and the promise of getSession
Mounting == {"INITIAL_SESSION", "getSession"}

authFrame ==
    <<scanVars, path, form, imageUrl, busy, toasts, calls, patientId, clock,
      saved, closure, records, scannerVars, token, profiles>>

\* the provider mounts: user and session are null, loading is true
InitAuth ==
    /\ NoScan
    /\ pc = "review"
    /\ response = None
    /\ FormIdle
    /\ ScannerIdle
    /\ token = "null"
    /\ profiles = {}
    /\ session = FALSE
    /\ localStorage \in
          {[EmptyStorage EXCEPT !["user_logged_out"] = m, !["sb-session"] = s] :
              m \in {NoItem, "true"}, s \in {NoItem, "s1"}}
    /\ inflight = Mounting

\* the callback of onAuthStateChange runs for an event, with the session the
\* client holds
AuthStateChange ==
    /\ \E event \in inflight \cap {"INITIAL_SESSION", "SIGNED_IN", "SIGNED_OUT"} :
          /\ inflight' = inflight \ {event}
          /\ LET s == event # "SIGNED_OUT" /\ HasSession(localStorage)
             IN  session' = s /\ user' = s
    /\ UNCHANGED <<localStorage, step, presses>>
    /\ UNCHANGED authFrame

\* the then-callback of getSession: the session-restore step
SessionRestore ==
    /\ "getSession" \in inflight
    /\ IF HasSession(localStorage) /\ ~ UserLoggedOut(localStorage)
       THEN /\ session' = TRUE
            /\ user' = TRUE
            /\ step' = "restored"
            /\ inflight' = inflight \ {"getSession"}
            /\ UNCHANGED localStorage
       ELSE /\ IF UserLoggedOut(localStorage)
               THEN /\ localStorage' =
                          [localStorage EXCEPT !["user_logged_out"] = NoItem]
                    /\ inflight' = (inflight \ {"getSession"}) \cup {"signOut"}
                    /\ step' = "markerRemoved"
               ELSE /\ inflight' = inflight \ {"getSession"}
                    /\ step' = "noSession"
                    /\ UNCHANGED localStorage
            /\ session' = FALSE
            /\ user' = FALSE
    /\ UNCHANGED presses
    /\ UNCHANGED authFrame

\* the global sign-out the restore step started settles: done, and the
\* SIGNED_OUT event follows, or failed, and the client keeps its session
GlobalSignOutSettles ==
    /\ "signOut" \in inflight
    /\ \E ok \in BOOLEAN :
          IF ok
          THEN /\ localStorage' = cleanupAuthState(localStorage)
               /\ inflight' = (inflight \ {"signOut"}) \cup {"SIGNED_OUT"}
          ELSE /\ inflight' = inflight \ {"signOut"}
               /\ UNCHANGED localStorage
    /\ UNCHANGED <<user, session, step, presses>>
    /\ UNCHANGED authFrame

\* AuthProvider.signOut up to its await
SignOutPressed ==
    /\ user
    /\ inflight \cap {"signIn", "reload", "userSignOut"} = {}
    /\ presses < MaxLoads
    /\ localStorage' = cleanupAuthState(localStorage)
    /\ inflight' = inflight \cup {"userSignOut"}
    /\ UNCHANGED <<user, session, step, presses>>
    /\ UNCHANGED authFrame

\* the awaited sign-out settles: the marker is set unless it threw, and the
\* page is loaded again, which mounts a new provider
SignOutSettles ==
    /\ "userSignOut" \in inflight
    /\ \E threw \in BOOLEAN :
          localStorage' = IF threw THEN localStorage
                          ELSE [localStorage EXCEPT !["user_logged_out"] = "true"]
    /\ user' = FALSE
    /\ session' = FALSE
    /\ inflight' = Mounting
    /\ step' = "idle"
    /\ presses' = presses + 1
    /\ UNCHANGED authFrame

\* AuthProvider.signIn up to the await of signInWithPassword: the stored
\* keys are cleaned up, the global sign-out is awaited and its failure ignored
SignInPressed ==
    /\ ~ user
    /\ inflight \cap {"signIn", "reload", "userSignOut"} = {}
    /\ presses < MaxLoads
    /\ localStorage' = cleanupAuthState(localStorage)
    /\ inflight' = inflight \cup {"signIn"}
    /\ UNCHANGED <<user, session, step, presses>>
    /\ UNCHANGED authFrame

\* signInWithPassword settles: with a session, the SIGNED_IN event and the
\* timer of the reload, or with an error
SignInSettles ==
    /\ "signIn" \in inflight
    /\ \E ok \in BOOLEAN :
          IF ok
          THEN /\ localStorage' = [localStorage EXCEPT !["sb-session"] = "s1"]
               /\ inflight' = (inflight \ {"signIn"}) \cup {"SIGNED_IN", "reload"}
          ELSE /\ inflight' = inflight \ {"signIn"}
               /\ UNCHANGED localStorage
    /\ UNCHANGED <<user, session, step, presses>>
    /\ UNCHANGED authFrame

\* the timer fires: window.location.href = '/', a new provider mounts
Reload ==
    /\ "reload" \in inflight
    /\ user' = FALSE
    /\ session' = FALSE
    /\ inflight' = Mounting
    /\ step' = "idle"
    /\ presses' = presses + 1
    /\ UNCHANGED localStorage
    /\ UNCHANGED authFrame

NextAuth ==
    \/ SignInPressed
    \/ SignInSettles
    \/ Reload
    \/ AuthStateChange
    \/ SessionRestore
    \/ GlobalSignOutSettles
    \/ SignOutPressed
    \/ SignOutSettles

SpecAuth == InitAuth /\ [][NextAuth]_vars

\* ------------------------------------------------------------------------
\* The four handlers that set a busy flag, every awaited call settling
\* ------------------------------------------------------------------------

\* forms that pass and that fail the validation, with dates that convert and
\* a date that makes the conversion throw
BusyForms ==
    {f \in Forms : /\ f.patientName \in {<<>>, S("John Smith")}
                   /\ f.age = <<>> /\ f.gender = <<>>}

InitBusy ==
    \/ InitSave /\ form \in BusyForms
    \/ InitScan

\* an awaited call of a save handler settles
SaveAwaitSettles ==
    /\ path \in SavePaths
    /\ (BlobFetched \/ UploadSettles \/ RecordSettles)

\* an awaited call of processImage settles, and the handler runs on
ScanAwaitSettles ==
    /\ path \in Scanners
    /\ \/ ImageFetched
       \/ OcrSettles
       \/ InvokeEnhance
       \/ InvokeFails
       \/ EdgeServe
       \/ Handover

\* enhanceExtraction returns: the step of EnhanceResolve, by what it does to
\* pc alone (no other step leaves "answered")
EnhanceAwaitSettles ==
    /\ path \in Scanners
    /\ pc = "answered"
    /\ pc' = EnhanceReturns(response)

NextBusy ==
    \/ path \in SavePaths /\ PressSave
    \/ SaveAwaitSettles
    \/ path \in Scanners /\ (StartProcess \/ ManualInput \/ RecordFormMount)
    \/ ScanAwaitSettles
    \/ path \in Scanners /\ EnhanceResolve

SpecBusy ==
    /\ InitBusy
    /\ [][NextBusy]_vars
    /\ WF_vars(SaveAwaitSettles)
    /\ WF_vars(ScanAwaitSettles)
    /\ WF_pc(EnhanceAwaitSettles)

\* ------------------------------------------------------------------------
\* Properties
\* ------------------------------------------------------------------------

TextLines == Lines(extractedText)

\* the lines of the text that match a field's pattern in extractFields
OcrMatchingLines(k) == {i \in 1..Len(TextLines) : OcrMatch(k, TextLines[i]).found}

\* ... and those whose captured value is not the empty string
OcrFillingLines(k) ==
    {i \in OcrMatchingLines(k) : Captured(k, OcrMatch(k, TextLines[i])) # <<>>}

OcrValueOfLine(k, i) == Captured(k, OcrMatch(k, TextLines[i]))

\* C1 as stated: every field with a matching line equals the trimmed capture
\* (for gender the normalized capture) of the FIRST matching line.
C1_FirstMatchingLine ==
    pc = "review" =>
        \A k \in FieldNames :
            OcrMatchingLines(k) # {} =>
                fields[k] = OcrValueOfLine(k, Min(OcrMatchingLines(k)))

\* C1 amended: every field with a matching line whose trimmed capture is not
\* empty equals the trimmed capture (for gender the normalized capture) of the
\* first such line; a matching line whose capture trims to '' fills nothing.
C1_FirstFillingLine ==
    pc = "review" =>
        \A k \in FieldNames :
            OcrFillingLines(k) # {} =>
                fields[k] = OcrValueOfLine(k, Min(OcrFillingLines(k)))

C1_Witness ==
    /\ pc = "review"
    /\ extractedText = Join(<<S("patient 12"), S("Name: Jane Doe")>>)
    /\ Min(OcrMatchingLines("patientName")) = 1
    /\ Min(OcrFillingLines("patientName")) = 2
    /\ fields.patientName = S("Jane Doe")

\* C2: extractFields of the five-line end-to-end text is exactly Alice Walker,
\* 34, Female, Seasonal allergies, Loratadine 10mg and an empty date.
C2_EndToEnd ==
    (pc = "review" /\ extractedText = E2EText) =>
        fields = [patientName |-> S("Alice Walker"), age |-> S("34"),
                  gender |-> S("Female"), date |-> <<>>,
                  diagnosis |-> S("Seasonal allergies"),
                  prescription |-> S("Loratadine 10mg")]

Char ==
    Lower \cup Upper \cup Digit \cup Whitespace
    \cup {":", ".", ",", "/", "-", "'", "_"}

IsString(x) == x \in Seq(Char)

\* what the whole-text fallback finds for a field (only name and age have one)
WholeTextFinds(k) ==
    \/ k = "patientName" /\ NameFallbackMatch(extractedText).found
    \/ k = "age" /\ AgeFallbackMatch(extractedText).found

\* C3: every field of the record extractFields returns is a string, and a field
\* that no line matches and no whole-text fallback finds is the empty string.
C3_UnmatchedIsEmptyString ==
    pc = "review" =>
        /\ DOMAIN fields = FieldNames
        /\ \A k \in FieldNames :
              /\ IsString(fields[k])
              /\ (OcrMatchingLines(k) = {} /\ ~WholeTextFinds(k)) => fields[k] = <<>>

C3_Witness ==
    /\ pc = "review"
    /\ extractedText = S("Name: Jane Doe")
    /\ OcrMatchingLines("date") = {}
    /\ fields.patientName = S("Jane Doe")
    /\ fields.date = <<>>
    /\ fields.age = <<>>

\* the gender capture of the first line a gender pattern matches
FirstCapture(extractor) ==
    LET match(line) == IF extractor = "OCRService" THEN OcrMatch("gender", line)
                       ELSE FallbackMatch("gender", line)
        hit == {i \in 1..Len(TextLines) : match(TextLines[i]).found}
    IN  IF hit = {} THEN NoMatch ELSE match(TextLines[Min(hit)])

GenderMapped(m, value) ==
    m.found =>
        /\ m.cap \in MaleTokens => value = S("Male")
        /\ m.cap \in FemaleTokens => value = S("Female")
        /\ NormalizeGender(value) = value

\* C4: in each extractor a captured token in {m, M, male, Male, man} gives
\* "Male", one in {f, F, female, Female, woman} gives "Female", and normalizing
\* the result again returns it unchanged.
C4_GenderNormalized ==
    /\ pc = "review" => GenderMapped(FirstCapture("OCRService"), fields.gender)
    /\ (pc = "enhanced" /\ response.status # 200) =>
          GenderMapped(FirstCapture("AIService"), enhanced.gender.v)
    /\ (pc = "local" /\ localFields \notin ServedFields) =>
          GenderMapped(FirstCapture("AIService"), localFields.gender.v)
    /\ (pc = "answered" /\ response.status = 200
          /\ Falsy(Spread(EmptyObj, hf.parsed).gender)
          /\ (Falsy(Spread(EmptyObj, hf.parsed).patientName)
                \/ Falsy(Spread(EmptyObj, hf.parsed).diagnosis))) =>
          GenderMapped(EdgeMatch("gender", extractedText),
                       response.extractedFields.gender.v)

C4_Witness ==
    /\ pc = "enhanced"
    /\ response.status # 200
    /\ FirstCapture("AIService").cap = S("woman")
    /\ enhanced.gender = Str(S("Female"))

\* the remote enhancement failed, or its generated text held no parseable JSON
EnhancementFailed ==
    \/ response.status # 200
    \/ response.status = 200 /\ hf.kind \in {"no_json", "invalid"}

\* C5: when the remote call fails or the generated text has no parseable JSON
\* object, enhanceExtraction(text) equals extractFields(text) field for field.
C5_FallbackEqualsExtractFields ==
    (pc = "enhanced" /\ EnhancementFailed) =>
        \A k \in FieldNames : enhanced[k] = Str(extractFields(extractedText)[k])

\* the remote answer merged over the empty defaults
Merged == Spread(EmptyObj, hf.parsed)

\* C6: after the merge, every field that is still empty carries the value
\* extractFields(text) gives it, whichever other fields the model filled, and
\* every field the model filled keeps the model's value.
C6_GapsFilledFromText ==
    (pc = "answered" /\ response.status = 200 /\ hf.kind = "json") =>
        \A k \in FieldNames :
            IF Merged[k] = Str(<<>>)
            THEN response.extractedFields[k] = Str(extractFields(extractedText)[k])
            ELSE response.extractedFields[k] = Merged[k]

\* C7: enhanceExtraction always resolves to a record whose six fields are
\* present and are strings.
C7_EnhancedIsTyped ==
    pc = "enhanced" =>
        \A k \in FieldNames : enhanced[k].t = "string"

\* a Save press on a form whose patient name is blank
BlankNamePress == presses' = presses + 1 /\ Trim(form.patientName) = <<>>

\* C8 as stated: pressing Save with a blank patient name reports the validation
\* error, issues no upload and no create / insert / update call, and does not
\* set the saving flag, in every save path.
C8_BlankNameReported ==
    [][BlankNamePress =>
          /\ toasts' = Append(toasts, Required)
          /\ calls' = calls
          /\ busy' = FALSE /\ step' = "idle"]_vars

\* C8 amended: pressing Save with a blank patient name issues no call and does
\* not set the saving flag; the validation error is reported when a user is
\* signed in (EditableRecordDialog reports it always), while RecordForm and
\* Scanner without a user return before the validation and report nothing.
C8_BlankNameBlocksSave ==
    [][BlankNamePress =>
          /\ calls' = calls
          /\ busy' = FALSE /\ step' = "idle"
          /\ toasts' = IF NeedsUser(path) /\ ~user THEN toasts
                       ELSE Append(toasts, Required)]_vars

C8_Witness ==
    /\ presses = 1
    /\ path = "RecordForm"
    /\ user
    /\ form.patientName = S("   ")
    /\ toasts = <<Required>>
    /\ calls = <<>>
    /\ ~busy

\* the position of the i-th non-whitespace character of a name
NonWsAt(name, i) ==
    CHOOSE j \in 1..Len(name) :
        /\ name[j] \notin Whitespace
        /\ Cardinality({h \in 1..(j - 1) : name[h] \notin Whitespace}) = i - 1

NonWsCount(name) == Cardinality({j \in 1..Len(name) : name[j] \notin Whitespace})

DigitValue(c) == (CHOOSE i \in 1..10 : DigitSeq[i] = c) - 1

RECURSIVE DigitsValue(_)
DigitsValue(d) ==
    IF d = <<>> THEN 0
    ELSE 10 * DigitsValue(SubSeq(d, 1, Len(d) - 1)) + DigitValue(d[Len(d)])

\* C9: for a name with at least three non-whitespace characters the id is the
\* first three of them in upper case followed by exactly six decimal digits,
\* the low six digits of the timestamp; for "John Smith" it starts with JOH and
\* has length 9; the id is determined by the name and the timestamp.
C9_PatientIdShape ==
    (patientId # <<>> /\ NonWsCount(form.patientName) >= 3) =>
        /\ Len(patientId) = 9
        /\ \A i \in 1..3 :
              patientId[i] = ToUpperChar(form.patientName[NonWsAt(form.patientName, i)])
        /\ \A i \in 4..9 : patientId[i] \in Digit
        /\ DigitsValue(SubSeq(patientId, 4, 9)) = clock % 1000000
        /\ form.patientName = S("John Smith") => SubSeq(patientId, 1, 3) = S("JOH")

C9_Witness ==
    /\ form.patientName = S("Al Bo")
    /\ clock = 1762000042
    /\ patientId = S("ALB000042")

IsIntegerString(s) == s # <<>> /\ \A i \in 1..Len(s) : s[i] \in Digit

RecordOps == {"createMedicalRecord", "insert", "updateMedicalRecord"}

\* C10: the age of every record sent to the store is the integer the form's
\* age denotes when that is a valid integer string, and null otherwise; never
\* an empty string, a non-numeric string or NaN.
C10_AgeAtBoundary ==
    \A i \in 1..Len(calls) :
        calls[i].op \in RecordOps =>
            calls[i].age = IF IsIntegerString(form.age)
                           THEN Num(StripZeros(form.age)) ELSE Null

\* the values the gender Select offers
CanonicalGenders == {S("Male"), S("Female"), S("Other")}

\* C11: the gender of every record sent to the store is the form's gender when
\* that is one of "Male", "Female", "Other", and null in every other case.
C11_GenderAtBoundary ==
    \A i \in 1..Len(calls) :
        calls[i].op \in RecordOps =>
            calls[i].gender = IF form.gender \in CanonicalGenders
                              THEN Str(form.gender) ELSE Null

\* Save was pressed on a form that passes the user check and the name check
PassedValidation ==
    presses >= 1 /\ ~(NeedsUser(path) /\ ~user) /\ Trim(form.patientName) # <<>>

\* C12: a save that passes validation sends today's date when the form's date
\* is empty and a yyyy-mm-dd date otherwise, and the date never makes the save
\* fail: with no image to upload first, the record call is issued.
C12_DateNeverFailsSave ==
    /\ \A i \in 1..Len(calls) :
          calls[i].op \in RecordOps =>
              /\ IsIsoDate(calls[i].date.v)
              /\ form.date = <<>> => calls[i].date = Str(Today)
    /\ (PassedValidation /\ ~(Uploads(path) /\ imageUrl = "blob")) =>
          \E i \in 1..Len(calls) : calls[i].op \in RecordOps

\* C13: the patientName of every record sent to the store is the trimmed form
\* of the name in the form.
C13_NamePersistedTrimmed ==
    \A i \in 1..Len(calls) :
        calls[i].op \in RecordOps =>
            calls[i].patientName = Str(Trim(form.patientName))

\* the id's prefix: the first three non-blank characters, in upper case
IdPrefix(name) == ToUpperCase(SliceFirst(RemoveWhitespace(name), 3))

\* C14: the patientId is computed when Save is pressed, from the name as it
\* stands in the form at that press, whatever name the extraction gave and
\* whatever edits came before; the record sent carries the pressed form's name
\* and that id; before the first press no id exists.
C14_IdFromEditedName ==
    [][/\ presses = 0 => patientId = <<>>
       /\ (presses' = presses + 1 /\ user /\ Trim(form.patientName) # <<>>) =>
             /\ patientId' = generatePatientId(form.patientName, clock')
             /\ closure' = form
       /\ (calls' # calls /\ Last(calls').op \in RecordOps) =>
             /\ Last(calls').patientName = Str(closure'.patientName)
             /\ Last(calls').patientId = Str(patientId')
             /\ patientId' = generatePatientId(closure'.patientName, clock')
      ]_vars

\* a record was sent under a name edited to one whose id prefix differs from
\* that of the extracted name
C14_Witness ==
    /\ fields.patientName # form.patientName
    /\ \E i \in 1..Len(calls) :
          /\ calls[i].op \in RecordOps
          /\ calls[i].patientName = Str(form.patientName)
          /\ SubSeq(calls[i].patientId.v, 1, 3) = IdPrefix(form.patientName)
          /\ IdPrefix(form.patientName) # IdPrefix(fields.patientName)
          /\ Len(IdPrefix(fields.patientName)) = 3

\* C15: EditableRecordDialog.handleSave sends no patientId in its update
\* payload, and after any update, one that changes the name included, every
\* record of the dashboard keeps the id and the patient_id it was loaded with.
C15_PatientIdImmutable ==
    /\ \A i \in 1..Len(calls) :
          calls[i].op = "updateMedicalRecord" => calls[i].patientId = Undefined
    /\ path = "EditDialog" =>
          /\ Len(records) = Len(DashboardRecords)
          /\ \A i \in 1..Len(records) :
                /\ records[i].id = DashboardRecords[i].id
                /\ records[i].patient_id = DashboardRecords[i].patient_id

\* an update that changed the edited record's name has reached the dashboard
C15_Witness ==
    /\ path = "EditDialog"
    /\ saved = 1
    /\ records[1].patient_name = Str(S("Al Bo"))
    /\ records[1].patient_name # EditedRecord.patient_name
    /\ records[2] = DashboardRecords[2]

\* the step ends the handler in its catch block: the failure notice is shown,
\* onSaved is not called, the form is as it was and Save is enabled again
ReportsFailure ==
    /\ toasts' = Append(toasts, "Failed to save medical record")
    /\ saved' = saved
    /\ form' = form
    /\ ~busy'

\* C16: in RecordForm.handleSave a failed image upload (the step out of the
\* upload that does not send the record with the uploaded URL) and a failed
\* create call (the create settles and onSaved is not called) each report the
\* error, leave onSaved uncalled and leave the six fields as they were.
C16_FailureKeepsForm ==
    [][Uploads(path) =>
          /\ form' = form
          /\ (step = "uploading" /\
              ~(calls' # calls /\ Last(calls').imageUrl = Str(UploadedUrl)))
                => ReportsFailure
          /\ (step \in {"fetching", "saving"} /\ step' = "idle" /\ saved' = saved)
                => ReportsFailure
      ]_vars

\* C17: when OCRService.extractText throws or resolves to text that is blank
\* after trimming, processImage reports the error, sets the preview to null
\* and the processing flag to false, and ends without the enhancement being
\* invoked and without onExtracted being called; a failed scan is at rest.
C17_OcrFailureResets ==
    [][/\ (step = "ocr" /\ Trim(extractedText') = <<>>) =>
             /\ \E message \in {OcrThrew, NoText} :
                   toasts' = Append(toasts, message)
             /\ preview' = NoPreview
             /\ ~busy'
             /\ step' = "idle"
             /\ pc' = "failed"
             /\ handed' = handed
       /\ pc' = "failed" => (step' = "idle" /\ ~busy' /\ preview' = NoPreview)
      ]_vars

\* an image file whose text is only whitespace: the preview was shown and is
\* cleared again
C17_Witness ==
    /\ pc = "failed"
    /\ source = "image"
    /\ extractedText = S(" \n ")
    /\ Last(toasts) = NoText
    /\ preview = NoPreview
    /\ ~busy
    /\ handed = <<>>

\* the scan is between the OCR text and onExtracted
Enhancing == path = "Scanner" /\ pc \in {"scanned", "invoked", "answered", "enhanced"}

\* C18: in Scanner.processImage, once OCR gave non-blank text, whatever the
\* enhancement call does, nothing is reported and nothing handed on until
\* enhanceExtraction has resolved; then onExtracted is called, once, with the
\* serialized record, and the success notice is shown.
C18_DegradationInvisible ==
    [][/\ Enhancing =>
             IF pc = "enhanced"
             THEN /\ handed' = <<[text |-> Stringify(enhanced), imageUrl |-> imageUrl]>>
                  /\ handed'[1].text.kind = "json"
                  /\ "patientName" \in DOMAIN handed'[1].text.doc
                  /\ toasts' = Append(toasts, "Text extracted and enhanced successfully")
                  /\ ~busy'
                  /\ pc' = "done"
             ELSE /\ handed' = handed
                  /\ toasts' = toasts
                  /\ busy'
                  /\ pc' \in {"invoked", "answered", "enhanced"}
       /\ Len(handed') <= 1
       /\ path = "Scanner" => (pc' \in {"done", "review"} <=> Len(handed') = 1)
      ]_vars

\* a scan whose enhancement call failed, handed on with the success notice
C18_Witness ==
    /\ path = "Scanner"
    /\ pc = "done"
    /\ response.status # 200
    /\ Len(handed) = 1
    /\ handed[1].text.kind = "json"
    /\ Last(toasts) = "Text extracted and enhanced successfully"
    /\ \A i \in 1..Len(toasts) : toasts[i] \notin {OcrThrew, NoText, FetchThrew, NotImage}

\* C19: each of the six fields of RecordForm's initial state is a string,
\* whatever text the form was mounted with.
C19_InitialStateIsStrings ==
    pc = "review" => \A k \in FieldNames : fields[k].t = "string"

\* the record calls among a sequence of calls
RecordCalls(cs) == {i \in 1..Len(cs) : cs[i].op \in RecordOps}

\* C20: no handleSave starts while a save is in flight; a record call is never
\* issued while another one is pending; and the handlers have issued at most
\* one record call per press of Save.
C20_OneCreatePerSave ==
    [][/\ presses' # presses => (~busy /\ step = "idle")
       /\ (calls' # calls /\ Last(calls').op \in RecordOps) => step # "saving"
       /\ Cardinality(RecordCalls(calls')) <= presses'
       /\ step' = "saving" => busy'
      ]_vars

\* Save pressed again after a failed create: two presses, two create calls
C20_Witness ==
    /\ path = "RecordForm"
    /\ presses = 2
    /\ Cardinality(RecordCalls(calls)) = 2
    /\ step = "saving"
    /\ toasts = <<"Failed to save medical record">>

\* the line loop of extractFields after the first i lines
ScanOfPrefix(i) == OcrScan(SubSeq(TextLines, 1, i), 1, EmptyFields)

\* the matching lines whose capture group 1 is not the empty string
OcrCapturingLines(k) ==
    {i \in OcrMatchingLines(k) : OcrMatch(k, TextLines[i]).cap # <<>>}

\* C21 as stated: of two lines that match a field's pattern with non-empty
\* captures, the returned value comes from the earlier line.
C21_FirstCaptureWins ==
    pc = "review" =>
        \A k \in FieldNames :
            \A i, j \in OcrCapturingLines(k) :
                i < j => fields[k] = OcrValueOfLine(k, Min(OcrCapturingLines(k)))

\* C21 amended: once some line has given a field a non-empty value, no later line and
\* no fallback changes it; when two lines match a field's pattern with
\* captures that are non-empty after trimming, the value returned is that of
\* the earlier line.
C21_FirstMatchWins ==
    pc = "review" =>
        \A k \in FieldNames :
            /\ \A i \in 1..Len(TextLines) :
                  ScanOfPrefix(i)[k] # <<>> => fields[k] = ScanOfPrefix(i)[k]
            /\ \A i, j \in OcrFillingLines(k) :
                  i < j => fields[k] = OcrValueOfLine(k, Min(OcrFillingLines(k)))

\* two lines give the name different non-empty values; the earlier one is kept
C21_Witness ==
    /\ pc = "review"
    /\ extractedText = Join(<<S("Name: Jo Li"), S("Name: Jane Doe")>>)
    /\ OcrFillingLines("patientName") = {1, 2}
    /\ OcrValueOfLine("patientName", 2) = S("Jane Doe")
    /\ fields.patientName = S("Jo Li")

\* a capital letter followed by one or more small letters
IsCapWord(w) ==
    /\ Len(w) >= 2
    /\ w[1] \in Upper
    /\ \A q \in 2..Len(w) : w[q] \in Lower

\* s[i..j] is two capitalized words with one space between them, and the
\* second word ends where the small letters end
TwoCapWordsAt(s, i, j) ==
    /\ 1 <= i /\ j <= Len(s)
    /\ \E m \in i..j : /\ s[m] = " "
                       /\ IsCapWord(SubSeq(s, i, m - 1))
                       /\ IsCapWord(SubSeq(s, m + 1, j))
    /\ (j = Len(s) \/ s[j + 1] \notin Lower)

\* the first two-capitalized-word sequence of a text, <<>> when it has none
FirstTwoCapWords(s) ==
    LET at == {i \in 1..Len(s) : \E j \in i..Len(s) : TwoCapWordsAt(s, i, j)}
    IN  IF at = {} THEN <<>>
        ELSE SubSeq(s, Min(at), CHOOSE j \in Min(at)..Len(s) : TwoCapWordsAt(s, Min(at), j))

\* a decimal string without leading zeros whose value is from 1 to 100
IsAgeOneToHundred(a) ==
    /\ Len(a) \in 1..3
    /\ \A q \in 1..Len(a) : a[q] \in Digit
    /\ a[1] # "0"
    /\ Len(a) = 3 => a = S("100")

\* C22: a name or an age the line scan found is returned unchanged; only when
\* the scan left the name empty is it the first two-capitalized-word sequence
\* of the text, and only when the scan left the age empty is it set by the
\* fallback, then to a decimal string from 1 to 100; the other four fields are
\* what the scan left.
C22_FallbacksFillOnlyGaps ==
    pc = "review" =>
        LET scan == ScanOfPrefix(Len(TextLines))
        IN  /\ scan.patientName # <<>> => fields.patientName = scan.patientName
            /\ scan.patientName = <<>> =>
                  fields.patientName = FirstTwoCapWords(extractedText)
            /\ scan.age # <<>> => fields.age = scan.age
            /\ scan.age = <<>> =>
                  (fields.age = <<>> \/ IsAgeOneToHundred(fields.age))
            /\ \A k \in FieldNames \ {"patientName", "age"} : fields[k] = scan[k]

\* no label in the text: name and age both come from the fallbacks
C22_Witness ==
    /\ pc = "review"
    /\ extractedText = S("Al Bo 7")
    /\ ScanOfPrefix(Len(TextLines)).patientName = <<>>
    /\ ScanOfPrefix(Len(TextLines)).age = <<>>
    /\ fields.patientName = S("Al Bo")
    /\ fields.age = S("7")

\* a string of one to three decimal digits
IsShortDigits(a) ==
    /\ Len(a) \in 1..3
    /\ \A q \in 1..Len(a) : a[q] \in Digit

\* the text holds a dd/mm/yyyy token somewhere
HasSlashDate(s) == \E p \in 1..Len(s) : SlashDateAt(s, p)

\* C24: the age extractFields returns is the empty string or one to three
\* decimal digits; it never holds a '/' and is never a whole dd/mm/yyyy token.
C24_AgeIsShortDigits ==
    pc = "review" =>
        /\ fields.age = <<>> \/ IsShortDigits(fields.age)
        /\ \A q \in 1..Len(fields.age) : fields.age[q] # "/"
        /\ ~ HasSlashDate(fields.age)

\* a date after the birth label: only its leading digits are returned
C24_Witness ==
    /\ pc = "review"
    /\ extractedText = S("birth: 01/02/1990")
    /\ OcrMatch("age", TextLines[1]).found
    /\ SlashDateAt(extractedText, 8)
    /\ fields.age = S("01")

\* the three values a local extractor may give the gender field
ExtractedGenders == {<<>>, S("Male"), S("Female")}

\* C25: the gender field of OCRService.extractFields, of
\* LocalOCRService.fallbackExtraction and of AIService.fallbackExtraction is
\* always one of "", "Male", "Female".
C25_GenderOfLocalExtractors ==
    /\ pc = "review" => fields.gender \in ExtractedGenders
    /\ (pc = "local" /\ localFields \notin ServedFields) =>
          localFields.gender \in {Str(g) : g \in ExtractedGenders}
    /\ (pc = "enhanced" /\ response.status # 200) =>
          enhanced.gender \in {Str(g) : g \in ExtractedGenders}

\* the token "woman" is captured and "Female" is returned
C25_Witness ==
    /\ pc = "enhanced"
    /\ response.status # 200
    /\ extractedText = S("Sex: woman")
    /\ FallbackMatch("gender", TextLines[1]).cap = S("woman")
    /\ enhanced.gender = Str(S("Female"))

\* the requests of one kind among the calls issued
Requests(op) == {i \in 1..Len(calls) : calls[i].op = op}

\* enhanceExtraction has called supabase.functions.invoke
EnhanceInvoked == pc \in {"invoked", "answered", "enhanced"}

\* C23: a call of enhanceExtraction invokes the function exactly once, an
\* invocation requests the text-generation endpoint at most once, and after
\* a failure nothing more is requested and the local fallback is returned.
C23_NoRetry ==
    /\ Cardinality(Requests("invoke")) = IF EnhanceInvoked THEN 1 ELSE 0
    /\ Cardinality(Requests("generate")) <= Cardinality(Requests("invoke"))
    /\ (pc \in {"answered", "enhanced"} /\ response = Unreachable) =>
          Requests("generate") = {}
    /\ pc = "enhanced" =>
          /\ Len(calls) <= 2
          /\ response.status # 200 =>
                enhanced = ToObj(fallbackExtraction(extractedText))

\* the endpoint answered with an error: one invocation, one request, and the
\* fallback's result
C23_Witness ==
    /\ pc = "enhanced"
    /\ response.status = 500
    /\ hf.kind = "not_ok"
    /\ calls = <<InvokeRequest, GenerationRequest>>
    /\ extractedText = E2EText
    /\ enhanced = ToObj(fallbackExtraction(E2EText))
    /\ enhanced # EmptyObj

\* the step issues a call of the given kind
Issues(op) == calls' # calls /\ Last(calls').op = op

C27_BusyFlagClears ==
    /\ [](busy <=> step # "idle")
    /\ busy ~> ~busy

\* a save that failed at the upload: the notice is there, the flag is cleared
C27_Witness ==
    /\ path = "RecordForm"
    /\ presses = 1
    /\ Len(calls) = 1
    /\ calls[1].op = "upload"
    /\ toasts = <<Failure(path)>>
    /\ ~busy

\* the token and the two stored entries of the session
StoredSession == <<token, localStorage["auth_token"], localStorage["user"]>>

\* the request of a signIn settles in this step
SignInSettled == "signIn" \in inflight /\ "signIn" \notin inflight'

\* C28: the token and the stored auth_token / user entries change only when
\* a signIn settles with a token in its response, or by signOut; a signIn
\* that settles without a token leaves them unchanged; after signOut the
\* token is null, both entries are removed and getCurrentUser is null, and
\* every request issued from then until a signIn settles with a token
\* carries no Authorization header.
C28_SessionLifecycle ==
    [][/\ StoredSession' # StoredSession =>
             \/ pc' = "signedOut"
             \/ /\ SignInSettled
                /\ response'.token # Absent
                /\ token' = response'.token
                /\ localStorage'["auth_token"] = response'.token
       /\ (SignInSettled /\ response'.token = Absent) =>
             StoredSession' = StoredSession
       /\ pc' = "signedOut" =>
             /\ StoredSession' = <<"null", NoItem, NoItem>>
             /\ getCurrentUser(localStorage') = "null"
       /\ (calls' # calls /\ pc = "signedOut") => Last(calls').auth = "null"
       /\ calls' # calls => Last(calls').auth = token]_vars

\* a request with the token, a signOut, and then a request without
C28_Witness ==
    /\ pc = "signedOut"
    /\ Len(calls) = 3
    /\ calls[1].op = "/auth/signin"
    /\ calls[2].auth = "t2"
    /\ calls[3].auth = "null"
    /\ token = "null"
    /\ getCurrentUser(localStorage) = "null"

\* the profile change of the handler in flight is in effect on the server
ChangeInEffect ==
    IF path = "AddDoctor" THEN closure.doctor \in profiles
    ELSE closure.doctor \notin profiles

\* the step shows the success notice
ReportsSuccess ==
    toasts' # toasts /\ Last(toasts') \in {DoctorSuccess(p) : p \in DoctorPaths}

\* the audit call settles with an error
AuditFails == step = "auditing" /\ step' = "idle" /\ ~ ReportsSuccess

\* C29: the audit event is sent only in the step in which the create or
\* delete call succeeds; success is reported only after the audit call has
\* succeeded too; when the audit call alone fails, the notice is the one a
\* failed create or delete gives, and the profile change stays in effect.
C29_AuditAfterChange ==
    [][/\ Issues("logAuditEvent") =>
             /\ step \in {"creating", "deleting"}
             /\ Last(calls).op \in {"createDoctorProfile", "deleteDoctorProfile"}
             /\ ChangeInEffect'
       /\ ReportsSuccess =>
             /\ step = IF path = "AddDoctor" THEN "auditing" ELSE "refreshing"
             /\ \E i \in 1..Len(calls) : calls[i].op = "logAuditEvent"
             /\ ChangeInEffect'
       /\ saved' # saved => ReportsSuccess
       /\ AuditFails =>
             /\ Last(toasts') \in
                   (IF path = "AddDoctor" THEN Errors
                    ELSE {"Failed to delete doctor profile"})
             /\ saved' = saved
             /\ calls' = calls
             /\ ChangeInEffect'
       /\ (step \in {"creating", "deleting"} /\ step' = "idle") =>
             /\ ~ ChangeInEffect'
             /\ calls' = calls
             /\ Last(toasts') \in
                   (IF path = "AddDoctor" THEN Errors
                    ELSE {"Failed to delete doctor profile"})]_vars

\* the profile was deleted, the audit call failed: the failure notice of the
\* deletion is shown and the profile is gone
C29_Witness ==
    /\ path = "ViewDoctors"
    /\ presses = 1
    /\ step = "idle"
    /\ Len(calls) = 2
    /\ calls[2].op = "logAuditEvent"
    /\ toasts = <<"Failed to delete doctor profile">>
    /\ closure.doctor \notin profiles

\* C30: when the provider mounted with the user_logged_out marker present and
\* the restore step and every callback have run, no user and no session is
\* set, whichever of the restore step and the auth-state-change callback ran
\* first.
C30_LogoutRespected ==
    (step = "markerRemoved" /\ inflight = {}) => (~ user /\ ~ session)

====
